---------------------------- MODULE Spec2Model ----------------------------
(***************************************************************************)
(* Model of the chouette-iot agent: the periodic Scheduler and its         *)
(* Cancellable handle, the Redis storage engine (queues of records kept as *)
(* a sorted set of keys plus a hash of payloads), the MetricsAggregator    *)
(* tick and the MetricsSender / LogsSender ticks.                          *)
(*                                                                         *)
(* Each subsystem has its own specification over the shared variables:     *)
(*   SpecSched  - Cancellable.cancel / set_timer and the periodic chain    *)
(*   SpecStore  - the storage engine's operations on the queues            *)
(*   SpecAgg    - one MetricsAggregator working on the raw metrics queue   *)
(*   SpecSend   - one sender (metrics or logs) working on a wrapped queue  *)
(*   SpecMerge  - MetricsMerger, MergedMetric and the wrappers applied to  *)
(*                given keys, payloads and metrics                         *)
(*   SpecSendLive - a sender ticked for ever                               *)
(*   SpecActors - the actors, their mailboxes and failures                 *)
(*   SpecClock  - one schedule of the Scheduler on the clock               *)
(*   SpecEngines - the SQLite engine next to the Redis engine              *)
(*   SpecRace   - the Redis cleanup command by command, with a producer    *)
(*   SpecRegistry, SpecRegistryLive - get_instance(), blocking requests    *)
(*                and stops of the actors' threads                         *)
(* A specification leaves the variables of the other subsystems alone.     *)
(***************************************************************************)
EXTENDS Integers, Sequences, FiniteSets, TLC

VARIABLES
    \* ---- Scheduler / Cancellable (chouette/_scheduler.py)
    cancelled,      \* Cancellable._cancelled
    timer,          \* Cancellable._timer: 0 is None, i > 0 is the i-th Timer
    lockOwner,      \* holder of Cancellable._timer_lock, NoThread when free
    pc,             \* position of every thread (setup, timer threads, cancel callers)
    cancelCalled,   \* the Timers whose .cancel() has been called
    retval,         \* value returned by the thread's set_timer / cancel call
    runs,           \* number of executions of the task begun so far
    cancelRet,      \* some cancel() call has returned
    lateFired,      \* the Timers that fired after a cancel() call had returned
    \* ---- Storage (chouette_iot/storage/engines/_redis_engine.py)
    zset,           \* queue -> set of <<key, timestamp>>: the sorted set "<queue>.keys"
    hash,           \* queue -> set of <<key, payload>>: the hash "<queue>.values"
    nextKey,        \* uuid4(): keys handed out so far
    now,            \* time.time()
    last,           \* the last request served and its reply
    \* ---- MetricsAggregator (chouette_iot/metrics/_aggregator.py)
    agg,
    \* ---- Senders (chouette_iot/metrics/_sender.py, chouette_iot/_sender.py)
    snd,
    \* ---- MetricsMerger and the wrappers applied to given inputs
    mrg,
    \* ---- The actors: MetricsCollector, its plugins, the registry and the
    \* ---- schedules that tick them (chouette_iot/_singleton_actor.py)
    act,
    \* ---- Scheduler: one schedule on the clock (chouette/_scheduler.py)
    clk,
    \* ---- The two storage engines side by side (storage/engines)
    eng,
    \* ---- RedisEngine.cleanup_outdated command by command, next to a producer
    race,
    \* ---- Singleton look-ups, blocking requests and stops (_singleton_actor.py)
    reg

schedVars == <<cancelled, timer, lockOwner, pc, cancelCalled, retval, runs, cancelRet,
              lateFired>>
storeVars == <<zset, hash, nextKey, now, last>>
vars == <<schedVars, storeVars, agg, snd, mrg, act, clk, eng, race, reg>>
\* What the steps of one subsystem leave alone.
notSched == <<storeVars, agg, snd, mrg, act, clk, eng, race, reg>>
notStore == <<schedVars, agg, snd, mrg, act, clk, eng, race, reg>>
notAgg == <<schedVars, snd, mrg, act, clk, eng, race, reg>>
notSend == <<schedVars, agg, mrg, act, clk, eng, race, reg>>

-----------------------------------------------------------------------------
(***************************************************************************)
(* Bounds of the model.                                                    *)
(***************************************************************************)
MaxTimers == 3
NCancellers == 2
MaxKeys == 3        \* keys uuid4() hands out in a run
MaxTime == 2        \* the clock runs over 0..MaxTime
MaxBatch == 2       \* records in one StoreRecords request
MaxTicks == 2       \* ticks of the aggregator
MaxSends == 1       \* ticks of a sender
MaxBulk == 2        \* metrics_bulk_size ranges over 0..MaxBulk

-----------------------------------------------------------------------------
(***************************************************************************)
(* Scheduler and Cancellable.                                              *)
(*                                                                         *)
(* Threads: SetupThread runs Scheduler._execute_periodically; thread i in  *)
(* TimerIds is the thread of the i-th threading.Timer, which waits and     *)
(* then runs Scheduler._execute_and_update_cancellable; the threads in     *)
(* CancellerIds each call Cancellable.cancel() once (a user of the handle  *)
(* or Scheduler.stop_all).                                                 *)
(***************************************************************************)
NoThread == -1
SetupThread == 0
TimerIds == 1..MaxTimers
CancellerIds == (MaxTimers + 1)..(MaxTimers + NCancellers)
Threads == {SetupThread} \cup TimerIds \cup CancellerIds

\* Timers created so far: the timer threads that left "unborn".
Started == {i \in TimerIds : pc[i] # "unborn"}

\* The argument of the set_timer call thread t is making: the setup thread
\* passes the first timer, a timer thread passes the timer it has just armed.
SetTimerArg(t) == IF t = SetupThread THEN 1 ELSE t + 1

\* A Cancellable whose lock never excludes anybody.
NoLock(t) == TRUE

\* "with self._timer_lock:" can be entered by t.
LockFree(t) == lockOwner = NoThread

\* A set_timer that accepts a timer whatever the state of the handle.
NeverRefuses(c) == FALSE

\* set_timer's test "if self.is_cancelled()".
SetTimerRefuses(c) == c

\* threading.Timer.cancel(): a timer that is still waiting never runs its
\* function; on a timer that already fired it changes nothing.
TimerCancel(p, i) ==
    IF i \in TimerIds /\ p[i] = "waiting" THEN [p EXCEPT ![i] = "cancelled"] ELSE p

SchedInit ==
    /\ cancelled = FALSE
    /\ timer = 0
    /\ lockOwner = NoThread
    /\ pc = [t \in Threads |->
                IF t = SetupThread THEN "create"
                ELSE IF t \in TimerIds THEN "unborn" ELSE "idle"]
    /\ cancelCalled = {}
    /\ retval = [t \in Threads |-> "none"]
    /\ runs = 0
    /\ cancelRet = FALSE
    /\ lateFired = {}

\* _execute_periodically: Cancellable(None), Timer(...), timer.start().
SetupStartTimer ==
    /\ pc[SetupThread] = "create"
    /\ pc' = [pc EXCEPT ![SetupThread] = "st_acquire", ![1] = "waiting"]
    /\ UNCHANGED <<cancelled, timer, lockOwner, cancelCalled, retval, runs, cancelRet, lateFired,
                 notSched>>

\* set_timer: "with self._timer_lock" entered.
SetTimerAcquire(t) ==
    /\ pc[t] = "st_acquire"
    /\ LockFree(t)
    /\ lockOwner' = t
    /\ pc' = [pc EXCEPT ![t] = "st_check"]
    /\ UNCHANGED <<cancelled, timer, cancelCalled, retval, runs, cancelRet, lateFired,
                 notSched>>

\* set_timer: cancelled, so log the error and return False (lock released).
SetTimerRefuse(t) ==
    /\ pc[t] = "st_check"
    /\ SetTimerRefuses(cancelled)
    /\ lockOwner' = IF lockOwner = t THEN NoThread ELSE lockOwner
    /\ retval' = [retval EXCEPT ![t] = "false"]
    /\ pc' = [pc EXCEPT ![t] = IF t = SetupThread THEN "returned" ELSE "done"]
    /\ UNCHANGED <<cancelled, timer, cancelCalled, runs, cancelRet, lateFired,
                 notSched>>

\* set_timer: not cancelled, go on to the assignment.
SetTimerPass(t) ==
    /\ pc[t] = "st_check"
    /\ ~SetTimerRefuses(cancelled)
    /\ pc' = [pc EXCEPT ![t] = "st_assign"]
    /\ UNCHANGED <<cancelled, timer, lockOwner, cancelCalled, retval, runs, cancelRet, lateFired,
                 notSched>>

\* set_timer: self._timer = timer; return True (lock released).
SetTimerAssign(t) ==
    /\ pc[t] = "st_assign"
    /\ timer' = SetTimerArg(t)
    /\ lockOwner' = IF lockOwner = t THEN NoThread ELSE lockOwner
    /\ retval' = [retval EXCEPT ![t] = "true"]
    /\ pc' = [pc EXCEPT ![t] = IF t = SetupThread THEN "returned" ELSE "done"]
    /\ UNCHANGED <<cancelled, cancelCalled, runs, cancelRet, lateFired,
                 notSched>>

\* threading.Timer.run: the wait is over and the timer was not cancelled, so
\* _execute_and_update_cancellable is entered.
TimerFire(i) ==
    /\ pc[i] = "waiting"
    /\ pc' = [pc EXCEPT ![i] = "fired"]
    /\ lateFired' = IF cancelRet THEN lateFired \cup {i} ELSE lateFired
    /\ UNCHANGED <<cancelled, timer, lockOwner, cancelCalled, retval, runs, cancelRet,
                 notSched>>

\* _execute_and_update_cancellable: now = time.time(); "if now > started:
\* func(*args)".  The task begins, or is skipped when the clock reading is
\* not later than the start time.
TaskBegin(i) ==
    /\ pc[i] = "fired"
    /\ pc' = [pc EXCEPT ![i] = "task"]
    /\ runs' = runs + 1
    /\ UNCHANGED <<cancelled, timer, lockOwner, cancelCalled, retval, cancelRet, lateFired,
                 notSched>>

TaskSkip(i) ==
    /\ pc[i] = "fired"
    /\ pc' = [pc EXCEPT ![i] = "arm"]
    /\ UNCHANGED <<cancelled, timer, lockOwner, cancelCalled, retval, runs, cancelRet, lateFired,
                 notSched>>

\* func(*args) returns.
TaskEnd(i) ==
    /\ pc[i] = "task"
    /\ pc' = [pc EXCEPT ![i] = "arm"]
    /\ UNCHANGED <<cancelled, timer, lockOwner, cancelCalled, retval, runs, cancelRet, lateFired,
                 notSched>>

\* A callback that starts the next Timer although the task raised.
RaiseAndArm(i) ==
    /\ pc[i] = "task"
    /\ pc' = IF i + 1 \in TimerIds THEN [pc EXCEPT ![i] = "done", ![i + 1] = "waiting"]
             ELSE [pc EXCEPT ![i] = "done"]
    /\ UNCHANGED <<cancelled, timer, lockOwner, cancelCalled, retval, runs, cancelRet, lateFired,
                 notSched>>

\* func(*args) raises: "except Exception" logs it, no new Timer is made.
TaskRaise(i) ==
    /\ pc[i] = "task"
    /\ pc' = [pc EXCEPT ![i] = "done"]
    /\ UNCHANGED <<cancelled, timer, lockOwner, cancelCalled, retval, runs, cancelRet, lateFired,
                 notSched>>

\* timer = Timer(...); timer.start(): the next timer is running before
\* cancellable.set_timer(timer) is called.
ArmNext(i) ==
    /\ pc[i] = "arm"
    /\ i + 1 \in TimerIds
    /\ pc' = [pc EXCEPT ![i] = "st_acquire", ![i + 1] = "waiting"]
    /\ UNCHANGED <<cancelled, timer, lockOwner, cancelCalled, retval, runs, cancelRet, lateFired,
                 notSched>>

\* cancel() is called by a holder of the Cancellable, which
\* _execute_periodically has returned.
CancelCall(c) ==
    /\ pc[c] = "idle"
    /\ pc[SetupThread] = "returned"
    /\ pc' = [pc EXCEPT ![c] = "c_acquire"]
    /\ UNCHANGED <<cancelled, timer, lockOwner, cancelCalled, retval, runs, cancelRet, lateFired,
                 notSched>>

\* cancel: "with self._timer_lock" entered.
CancelAcquire(c) ==
    /\ pc[c] = "c_acquire"
    /\ LockFree(c)
    /\ lockOwner' = c
    /\ pc' = [pc EXCEPT ![c] = "c_timer"]
    /\ UNCHANGED <<cancelled, timer, cancelCalled, retval, runs, cancelRet, lateFired,
                 notSched>>

\* cancel: "if isinstance(self._timer, Timer): self._timer.cancel()".
CancelTimer(c) ==
    /\ pc[c] = "c_timer"
    /\ cancelCalled' = IF timer # 0 THEN cancelCalled \cup {timer} ELSE cancelCalled
    /\ pc' = [TimerCancel(pc, timer) EXCEPT ![c] = "c_check"]
    /\ UNCHANGED <<cancelled, timer, lockOwner, retval, runs, cancelRet, lateFired,
                 notSched>>

\* cancel: "if self.is_cancelled(): return False" (lock released).
CancelAlready(c) ==
    /\ pc[c] = "c_check"
    /\ cancelled
    /\ lockOwner' = IF lockOwner = c THEN NoThread ELSE lockOwner
    /\ retval' = [retval EXCEPT ![c] = "false"]
    /\ cancelRet' = TRUE
    /\ pc' = [pc EXCEPT ![c] = "done"]
    /\ UNCHANGED <<cancelled, timer, cancelCalled, runs, lateFired,
                 notSched>>

CancelFirst(c) ==
    /\ pc[c] = "c_check"
    /\ ~cancelled
    /\ pc' = [pc EXCEPT ![c] = "c_set"]
    /\ UNCHANGED <<cancelled, timer, lockOwner, cancelCalled, retval, runs, cancelRet, lateFired,
                 notSched>>

\* cancel: self._cancelled = True; return True (lock released).
CancelSet(c) ==
    /\ pc[c] = "c_set"
    /\ cancelled' = TRUE
    /\ lockOwner' = IF lockOwner = c THEN NoThread ELSE lockOwner
    /\ retval' = [retval EXCEPT ![c] = "true"]
    /\ cancelRet' = TRUE
    /\ pc' = [pc EXCEPT ![c] = "done"]
    /\ UNCHANGED <<timer, cancelCalled, runs, lateFired,
                 notSched>>

SchedNext ==
    \/ SetupStartTimer
    \/ \E t \in {SetupThread} \cup TimerIds :
          \/ SetTimerAcquire(t)
          \/ SetTimerRefuse(t)
          \/ SetTimerPass(t)
          \/ SetTimerAssign(t)
    \/ \E i \in TimerIds :
          \/ TimerFire(i)
          \/ TaskBegin(i)
          \/ TaskSkip(i)
          \/ TaskEnd(i)
          \/ TaskRaise(i)
          \/ ArmNext(i)
    \/ \E c \in CancellerIds :
          \/ CancelCall(c)
          \/ CancelAcquire(c)
          \/ CancelTimer(c)
          \/ CancelAlready(c)
          \/ CancelFirst(c)
          \/ CancelSet(c)

-----------------------------------------------------------------------------
\* Placeholder values of the other subsystems' variables.
StoreIdle ==
    /\ zset = <<>>
    /\ hash = <<>>
    /\ nextKey = 0
    /\ now = 0
    /\ last = <<>>

InitSched == SchedInit /\ StoreIdle /\ agg = <<>> /\ snd = <<>> /\ mrg = <<>> /\ act = <<>> /\ clk = <<>> /\ eng = <<>> /\ race = <<>> /\ reg = <<>>

SpecSched == InitSched /\ [][SchedNext]_vars

-----------------------------------------------------------------------------
(***************************************************************************)
(* Properties of the scheduler.                                            *)
(***************************************************************************)
CancelReturned == {c \in CancellerIds : pc[c] = "done"}
CancelNotSet == {c \in CancellerIds : pc[c] \in {"idle", "c_acquire", "c_timer", "c_check"}}

\* C3: once a cancel() call has returned, no new execution of the task
\* begins: a timer that fires after the return of cancel() never runs the
\* task (an execution whose firing was already under way may complete).
C3_NoExecutionAfterCancel ==
    \A i \in TimerIds : pc[i] = "task" => i \notin lateFired

\* C4: of all the cancel() calls on one Cancellable exactly one returns
\* True and every other returns False; is_cancelled() is False until the
\* first cancel() call sets the flag and True once any call has returned.
C4_CancelOnce ==
    /\ Cardinality({c \in CancellerIds : retval[c] = "true"}) <= 1
    /\ CancelReturned # {} =>
          /\ Cardinality({c \in CancelReturned : retval[c] = "true"}) = 1
          /\ \A c \in CancelReturned : retval[c] \in {"true", "false"}
          /\ cancelled
    /\ CancelNotSet = CancellerIds => ~cancelled

\* Both cancel() calls have returned, one of them with False.
C4_Witness ==
    /\ CancelReturned = CancellerIds
    /\ \E c \in CancellerIds : retval[c] = "false"

\* C5: a set_timer call that returns False found the handle cancelled and
\* left the timer field as it was; one that returns True found it not
\* cancelled and stored its argument; and the timer held by a cancelled
\* Cancellable is always one that cancel() has cancelled.
C5_SetTimerStep ==
    \A t \in {SetupThread} \cup TimerIds :
        /\ (pc[t] = "st_check" /\ pc'[t] \in {"returned", "done"}) =>
              (cancelled /\ timer' = timer /\ retval'[t] = "false")
        /\ (pc[t] = "st_assign" /\ pc'[t] \in {"returned", "done"}) =>
              (~cancelled /\ timer' = SetTimerArg(t) /\ retval'[t] = "true")

C5_SetTimer ==
    /\ [](cancelled => (timer # 0 => timer \in cancelCalled))
    /\ [][C5_SetTimerStep]_vars

\* A set_timer call was refused on a cancelled handle, which holds a timer
\* that cancel() cancelled, while another call had stored its timer.
C5_Witness ==
    /\ cancelled
    /\ timer # 0 /\ timer \in cancelCalled
    /\ \E t \in TimerIds : retval[t] = "false"
    /\ \E t \in {SetupThread} \cup TimerIds : retval[t] = "true"

-----------------------------------------------------------------------------
(***************************************************************************)
(* Storage: the Redis engine.                                              *)
(*                                                                         *)
(* A queue is a sorted set "<queue>.keys" (member = record key, score =    *)
(* timestamp) and a hash "<queue>.values" (field = record key, value =     *)
(* payload).  Both are functions from the keys they hold.  A pipeline is a *)
(* MULTI/EXEC transaction: execute() either applies all its commands or    *)
(* raises RedisError with nothing applied (argument "up" FALSE).           *)
(***************************************************************************)
Queues == {"raw", "wrapped"}
Keys == 1..MaxKeys
Timestamps == -1..MaxTime
Ttls == 0..MaxTime

\* Records handed to StoreRecords: raw "count" metrics of value 1, objects
\* whose dict is no metric ("broken"), and objects without an asdict
\* attribute ("junk", AttributeError).  WrappedMetric objects (kind
\* "wrapped") come from the aggregator.
RawRecords == [kind : {"count", "broken"}, timestamp : Timestamps]
Records == [kind : {"count"}, timestamp : Timestamps] \cup [kind : {"junk"}, timestamp : {0}]

HasAsDict(r) == r.kind # "junk"

\* WrappedMetric.asdict.
WrappedAsDict(r) ==
    IF r.interval # 0
    THEN [metric |-> r.metric, tags |-> r.tags, points |-> <<<<r.timestamp, r.value>>>>,
          type |-> r.type, interval |-> r.interval]
    ELSE [metric |-> r.metric, tags |-> r.tags, points |-> <<<<r.timestamp, r.value>>>>,
          type |-> r.type]

\* record.asdict().
AsDict(r) ==
    CASE r.kind = "count" ->
            [metric |-> "m", type |-> "count", timestamp |-> r.timestamp, value |-> 1]
      [] r.kind = "wrapped" -> WrappedAsDict(r)
      [] r.kind = "raw" ->
            [metric |-> r.metric, tags |-> <<>>, timestamp |-> r.timestamp,
             value |-> r.value, type |-> r.type]
      [] OTHER -> [timestamp |-> r.timestamp]
\* json.dumps: the text of a dict, which is not the dict.
JsonDumps(d) == <<"json", d>>

EmptyQueue == [k \in {} |-> 0]

Min(a, b) == IF a < b THEN a ELSE b
Max(a, b) == IF a > b THEN a ELSE b

\* Redis commands on one sorted set z or hash h.
ZAdd(z, mapping) ==
    [k \in DOMAIN z \cup DOMAIN mapping |-> IF k \in DOMAIN mapping THEN mapping[k] ELSE z[k]]
ZRem(z, ks) == [k \in DOMAIN z \ ks |-> z[k]]
HSet(h, mapping) ==
    [k \in DOMAIN h \cup DOMAIN mapping |-> IF k \in DOMAIN mapping THEN mapping[k] ELSE h[k]]
\* An HDEL that removes nothing.
HDelNothing(h, ks) == h
HDel(h, ks) == [k \in DOMAIN h \ ks |-> h[k]]
HLen(h) == Cardinality(DOMAIN h)

\* The members of a sorted set in its order: by score, ties by member.
RECURSIVE ZSorted(_)
ZSorted(z) ==
    IF DOMAIN z = {} THEN <<>>
    ELSE LET m == CHOOSE k \in DOMAIN z :
                      \A j \in DOMAIN z : z[k] < z[j] \/ (z[k] = z[j] /\ k <= j)
         IN  <<m>> \o ZSorted(ZRem(z, {m}))

\* The bounds ZRANGEBYSCORE / ZREMRANGEBYSCORE are called with.
InScoreRange(score, lo, hi) == lo <= score /\ score <= hi

ZRangeByScore(z, lo, hi) == SelectSeq(ZSorted(z), LAMBDA k : InScoreRange(z[k], lo, hi))
ZRemRangeByScore(z, lo, hi) ==
    [k \in {j \in DOMAIN z : ~InScoreRange(z[j], lo, hi)} |-> z[k]]

\* ZRANGE start stop WITHSCORES: zero-based inclusive indexes, a negative
\* index counts from the end of the set.
ZRange(z, start, stop) ==
    LET s == ZSorted(z)
        n == Len(s)
        a == IF start < 0 THEN Max(n + start, 0) ELSE start
        b == IF stop < 0 THEN n + stop ELSE Min(stop, n - 1)
    IN  IF a > b \/ a >= n THEN <<>>
        ELSE [i \in 1..(b - a + 1) |-> <<s[a + i], z[s[a + i]]>>]

\* HMGET: the value of every requested field, None for a missing one.
HMGet(h, keys) ==
    [i \in 1..Len(keys) |-> IF keys[i] \in DOMAIN h THEN h[keys[i]] ELSE <<"None">>]

Range(f) == {f[i] : i \in DOMAIN f}

\* "[value for value in raw_values if value]".
Truthy(v) == v # <<"None">>

\* The ascending list of a set of keys.
RECURSIVE KeyList(_)
KeyList(S) ==
    IF S = {} THEN <<>>
    ELSE LET m == CHOOSE k \in S : \A j \in S : k <= j IN <<m>> \o KeyList(S \ {m})

\* RedisEngine.cleanup_outdated at time t.
cleanup_outdated(zs, hs, q, ttl, t, up) ==
    LET threshold == t - ttl
        outdated_keys == ZRangeByScore(zs[q], 0, threshold)
    IN  IF ~up THEN [zset |-> zs, hash |-> hs, reply |-> FALSE]
        ELSE IF outdated_keys = <<>> THEN [zset |-> zs, hash |-> hs, reply |-> TRUE]
        ELSE [zset |-> [zs EXCEPT ![q] = ZRemRangeByScore(@, 0, threshold)],
              hash |-> [hs EXCEPT ![q] = HDel(@, Range(outdated_keys))],
              reply |-> TRUE]

\* A collect_keys that ignores the amount asked for.
collect_all_keys(zs, q, amount, up) == IF up THEN ZRange(zs[q], 0, -1) ELSE <<>>

\* RedisEngine.collect_keys: the list of (key, timestamp) pairs.
collect_keys(zs, q, amount, up) ==
    IF up THEN ZRange(zs[q], 0, amount - 1) ELSE <<>>

\* RedisEngine.collect_values: the payloads found for the keys.
collect_values(hs, q, keys, up) ==
    IF keys = <<>> THEN <<>>
    ELSE IF up THEN SelectSeq(HMGet(hs[q], keys), Truthy)
    ELSE <<>>

\* A delete_records that reports success and deletes nothing.
delete_nothing(zs, hs, q, keys, up) == [zset |-> zs, hash |-> hs, reply |-> TRUE]

\* A delete_records that empties the queue.
delete_queue(zs, hs, q, keys, up) ==
    [zset |-> [zs EXCEPT ![q] = EmptyQueue], hash |-> [hs EXCEPT ![q] = EmptyQueue],
     reply |-> TRUE]

\* RedisEngine.delete_records.
delete_records(zs, hs, q, keys, up) ==
    IF keys = <<>> THEN [zset |-> zs, hash |-> hs, reply |-> TRUE]
    ELSE IF up THEN [zset |-> [zs EXCEPT ![q] = ZRem(@, Range(keys))],
                     hash |-> [hs EXCEPT ![q] = HDel(@, Range(keys))],
                     reply |-> TRUE]
    ELSE [zset |-> zs, hash |-> hs, reply |-> FALSE]

\* RedisEngine.get_queue_size.
get_queue_size(hs, q, up) == IF up THEN HLen(hs[q]) ELSE -1

\* RedisEngine.store_records: the records that pass the loop's try block get
\* the keys uuid4() returns next, nk + 1, nk + 2, ...
\* A loop that keeps every record.
AllRecords(records) == records
Storable(records) == SelectSeq(records, HasAsDict)

store_records(zs, hs, nk, q, records, up) ==
    LET st == Storable(records)
        new == (nk + 1)..(nk + Len(st))
        keys == [k \in new |-> st[k - nk].timestamp]
        values == [k \in new |-> JsonDumps(AsDict(st[k - nk]))]
    IN  IF new = {} THEN [zset |-> zs, hash |-> hs, nextKey |-> nk, reply |-> TRUE]
        ELSE IF up THEN [zset |-> [zs EXCEPT ![q] = ZAdd(@, keys)],
                         hash |-> [hs EXCEPT ![q] = HSet(@, values)],
                         nextKey |-> nk + Len(st), reply |-> TRUE]
        ELSE [zset |-> zs, hash |-> hs, nextKey |-> nk + Len(st), reply |-> FALSE]

\* The requests of the storage's clients.
Batches == UNION {[1..n -> Records] : n \in 0..MaxBatch}
KeyLists == {KeyList(S) : S \in SUBSET Keys}
Amounts == 0..MaxKeys

\* A request and its reply, every field of one type: the request's type,
\* queue and arguments (records, keys, num), whether the store answers (up),
\* and the reply (ok for a Boolean, pairs, values or size).
Request(op, q, up) ==
    [op |-> op, queue |-> q, up |-> up, records |-> <<>>, keys |-> <<>>, num |-> 0,
     ok |-> TRUE, pairs |-> <<>>, values |-> <<>>, size |-> 0]

StoreInit ==
    /\ zset = [q \in Queues |-> EmptyQueue]
    /\ hash = [q \in Queues |-> EmptyQueue]
    /\ nextKey = 0
    /\ now = 0
    /\ \E q \in Queues : last = Request("none", q, TRUE)

\* StorageActor.on_receive, one action per message type.
StoreRecords(q, records, up) ==
    LET r == store_records(zset, hash, nextKey, q, records, up)
    IN  /\ r.nextKey <= MaxKeys
        /\ zset' = r.zset /\ hash' = r.hash /\ nextKey' = r.nextKey
        /\ last' = [Request("StoreRecords", q, up) EXCEPT !.records = records, !.ok = r.reply]
        /\ UNCHANGED <<now, notStore>>

DeleteRecords(q, keys, up) ==
    LET r == delete_records(zset, hash, q, keys, up)
    IN  /\ zset' = r.zset /\ hash' = r.hash
        /\ last' = [Request("DeleteRecords", q, up) EXCEPT !.keys = keys, !.ok = r.reply]
        /\ UNCHANGED <<nextKey, now, notStore>>

CleanupOutdatedRecords(q, ttl, up) ==
    LET r == cleanup_outdated(zset, hash, q, ttl, now, up)
    IN  /\ zset' = r.zset /\ hash' = r.hash
        /\ last' = [Request("CleanupOutdatedRecords", q, up) EXCEPT
                        !.num = ttl, !.ok = r.reply]
        /\ UNCHANGED <<nextKey, now, notStore>>

CollectKeys(q, amount, up) ==
    /\ last' = [Request("CollectKeys", q, up) EXCEPT
                    !.num = amount, !.pairs = collect_keys(zset, q, amount, up)]
    /\ UNCHANGED <<zset, hash, nextKey, now, notStore>>

CollectValues(q, keys, up) ==
    /\ last' = [Request("CollectValues", q, up) EXCEPT
                    !.keys = keys, !.values = collect_values(hash, q, keys, up)]
    /\ UNCHANGED <<zset, hash, nextKey, now, notStore>>

GetQueueSize(q, up) ==
    /\ last' = [Request("GetQueueSize", q, up) EXCEPT !.size = get_queue_size(hash, q, up)]
    /\ UNCHANGED <<zset, hash, nextKey, now, notStore>>

\* time.time() advances.
Tick ==
    /\ now < MaxTime
    /\ now' = now + 1
    /\ UNCHANGED <<zset, hash, nextKey, last, notStore>>

\* The clients of one behaviour all address the same queue, the one named in
\* the initial state.
StoreNext ==
    \/ \E q \in {last.queue}, up \in BOOLEAN :
          \/ \E records \in Batches : StoreRecords(q, records, up)
          \/ \E keys \in KeyLists : DeleteRecords(q, keys, up)
          \/ \E ttl \in Ttls : CleanupOutdatedRecords(q, ttl, up)
          \/ \E amount \in Amounts : CollectKeys(q, amount, up)
          \/ \E keys \in KeyLists : CollectValues(q, keys, up)
          \/ GetQueueSize(q, up)
    \/ Tick

InitStore == StoreInit /\ SchedInit /\ agg = <<>> /\ snd = <<>> /\ mrg = <<>> /\ act = <<>> /\ clk = <<>> /\ eng = <<>> /\ race = <<>> /\ reg = <<>>

SpecStore == InitStore /\ [][StoreNext]_vars

-----------------------------------------------------------------------------
(***************************************************************************)
(* MetricsMerger, MergedMetric, WrappedMetric and the SimpleWrapper.       *)
(***************************************************************************)
aggregate_interval == 2
metric_ttl == 1
DefaultInterval == 10

\* json.loads of a payload written by JsonDumps.
JsonLoads(p) == p[2]

\* The names of tags and the strings "name:value" of the model in the order of Python's string
\* comparison, which sorted() uses.
StringOrder == <<"a", "a:1", "a:1_b:2", "b", "b:2">>
Rank(str) == CHOOSE i \in 1..Len(StringOrder) : StringOrder[i] = str

\* list.insert of a string into a sorted list, and sorted().
RECURSIVE Insert(_, _)
Insert(str, sorted) ==
    IF sorted = <<>> THEN <<str>>
    ELSE IF Rank(str) <= Rank(sorted[1]) THEN <<str>> \o sorted
    ELSE <<sorted[1]>> \o Insert(str, Tail(sorted))
RECURSIVE Sorted(_)
Sorted(strs) == IF strs = <<>> THEN <<>> ELSE Insert(strs[1], Sorted(Tail(strs)))

\* MergedMetric._stringify_tags; a dict of tags is the list of its items
\* <<name, value>> in the order of insertion.
stringify_tags(tags) == Sorted([i \in 1..Len(tags) |-> tags[i][1] \o ":" \o tags[i][2]])

\* "_".join(s_tags).
RECURSIVE Join(_)
Join(s_tags) ==
    IF s_tags = <<>> THEN ""
    ELSE IF Len(s_tags) = 1 THEN s_tags[1]
    ELSE s_tags[1] \o "_" \o Join(Tail(s_tags))

\* MergedMetric.__init__; id is f"{metric}_{type}{'_'.join(s_tags)}".
MergedMetric(metric, type, values, timestamps, tags, interval) ==
    [metric |-> metric, type |-> type, values |-> values, timestamps |-> timestamps,
     tags |-> tags, s_tags |-> stringify_tags(tags), interval |-> interval,
     id |-> metric \o "_" \o type \o Join(stringify_tags(tags))]

\* What _cast_to_metric returns for a payload it cannot cast.
NoMetric == MergedMetric("None", "None", <<>>, <<>>, <<>>, 0)
IsMetric(m) == m # NoMetric

\* MergedMetric.__add__: the interval is not passed on.
MergedAdd(a, b) ==
    MergedMetric(a.metric, a.type, a.values \o b.values, a.timestamps \o b.timestamps,
                 a.tags, DefaultInterval)

\* MetricsMerger._cast_to_metric: JSONDecodeError on a payload that is no
\* JSON, TypeError on a JSON text that is no object (<<"scalar", n>>),
\* KeyError on a dict without the keys.
cast_to_metric(b_record, interval) ==
    LET dict_metric == JsonLoads(b_record)
    IN  IF /\ b_record[1] = "json"
           /\ {"metric", "type", "timestamp", "value"} \subseteq DOMAIN dict_metric
        THEN MergedMetric(dict_metric.metric, dict_metric.type, <<dict_metric.value>>,
                          <<dict_metric.timestamp>>,
                          IF "tags" \in DOMAIN dict_metric THEN dict_metric.tags ELSE <<>>,
                          interval)
        ELSE NoMetric

\* itertools.groupby: the runs of equal neighbours of a list, as lists of
\* indexes.
RECURSIVE GroupRuns(_)
GroupRuns(ks) ==
    IF ks = <<>> THEN <<>>
    ELSE LET n == Len(ks)
             rest == GroupRuns(SubSeq(ks, 1, n - 1))
         IN  IF n > 1 /\ ks[n] = ks[n - 1]
             THEN [rest EXCEPT ![Len(rest)] = Append(@, n)]
             ELSE Append(rest, <<n>>)

\* A grouping that puts every key into a group of its own.
group_each(metric_keys, interval) ==
    [g \in 1..Len(metric_keys) |-> <<metric_keys[g][1]>>]

\* MetricsMerger.group_metric_keys.
group_metric_keys(metric_keys, interval) ==
    LET idx == GroupRuns([i \in 1..Len(metric_keys) |-> metric_keys[i][2] \div interval])
    IN  [g \in 1..Len(idx) |-> [j \in 1..Len(idx[g]) |-> metric_keys[idx[g][j]][1]]]

\* reduce(lambda a, b: a + b, metrics).
RECURSIVE ReduceAdd(_)
ReduceAdd(metrics) ==
    IF Len(metrics) = 1 THEN metrics[1]
    ELSE MergedAdd(ReduceAdd(SubSeq(metrics, 1, Len(metrics) - 1)), metrics[Len(metrics)])

\* MetricsMerger.merge_metrics.
merge_metrics(b_records, interval) ==
    LET casted == [i \in 1..Len(b_records) |-> cast_to_metric(b_records[i], interval)]
        single_metrics == SelectSeq(casted, IsMetric)
        idx == GroupRuns([i \in 1..Len(single_metrics) |-> single_metrics[i].id])
    IN  [g \in 1..Len(idx) |->
            ReduceAdd([j \in 1..Len(idx[g]) |-> single_metrics[idx[g][j]]])]

RECURSIVE SeqSum(_)
SeqSum(s) == IF s = <<>> THEN 0 ELSE s[1] + SeqSum(Tail(s))
RECURSIVE SeqMax(_)
SeqMax(s) == IF Len(s) = 1 THEN s[1] ELSE Max(s[1], SeqMax(Tail(s)))

\* WrappedMetric.__init__ at time t: SingleMetric takes time.time() for a
\* timestamp that is 0 or None; interval 0 stands for None; the tags are
\* sorted(tags).
WrappedMetric(metric, type, timestamp, value, tags, interval, t) ==
    [kind |-> "wrapped", metric |-> metric, type |-> type,
     timestamp |-> IF timestamp = 0 THEN t ELSE timestamp,
     value |-> value, tags |-> Sorted(tags), interval |-> interval]

\* SimpleWrapper._wrap_count.
wrap_count(m, t) ==
    <<WrappedMetric(m.metric, m.type, SeqMax(m.timestamps), <<SeqSum(m.values), 1>>,
                    m.s_tags, m.interval, t)>>

\* SimpleWrapper._wrap_average; a value is the fraction <<numerator, denominator>>.
wrap_average(m, t) ==
    <<WrappedMetric(m.metric, "gauge", SeqMax(m.timestamps),
                    <<SeqSum(m.values), Len(m.values)>>, m.s_tags, 0, t),
      WrappedMetric(m.metric \o ".count", "count", SeqMax(m.timestamps),
                    <<Len(m.values), 1>>, m.s_tags, m.interval, t)>>

\* SimpleWrapper._wrap_metric.
wrap_metric(m, t) == IF m.type = "count" THEN wrap_count(m, t) ELSE wrap_average(m, t)

\* MetricsWrapper.wrap_metrics: sum(metrics, []).
RECURSIVE wrap_metrics(_, _)
wrap_metrics(merged_metrics, t) ==
    IF merged_metrics = <<>> THEN <<>>
    ELSE wrap_metric(merged_metrics[1], t) \o wrap_metrics(Tail(merged_metrics), t)

\* min() of a list, and sorted() of a list of numbers.
RECURSIVE SeqMin(_)
SeqMin(s) == IF Len(s) = 1 THEN s[1] ELSE Min(s[1], SeqMin(Tail(s)))
RECURSIVE InsertNum(_, _)
InsertNum(n, sorted) ==
    IF sorted = <<>> THEN <<n>>
    ELSE IF n <= sorted[1] THEN <<n>> \o sorted
    ELSE <<sorted[1]>> \o InsertNum(n, Tail(sorted))
RECURSIVE SortedNums(_)
SortedNums(s) == IF s = <<>> THEN <<>> ELSE InsertNum(s[1], SortedNums(Tail(s)))

\* Iterating a dict gives its keys.
DictKeys(tags) == [i \in 1..Len(tags) |-> tags[i][1]]

\* DatadogWrapper._wrap_count.
datadog_wrap_count(m, t) ==
    <<WrappedMetric(m.metric, m.type, SeqMin(m.timestamps), <<SeqSum(m.values), 1>>,
                    m.s_tags, m.interval, t)>>

\* DatadogWrapper._wrap_rate: sum(values) / float(interval).
datadog_wrap_rate(m, t) ==
    <<WrappedMetric(m.metric, m.type, SeqMin(m.timestamps),
                    <<SeqSum(m.values), m.interval>>, m.s_tags, m.interval, t)>>

\* DatadogWrapper._wrap_gauge: the value of the first pair with the latest
\* timestamp.
datadog_wrap_gauge(m, t) ==
    LET latest == CHOOSE i \in 1..Len(m.values) :
                      /\ m.timestamps[i] = SeqMax(m.timestamps)
                      /\ \A j \in 1..(i - 1) : m.timestamps[j] < m.timestamps[i]
    IN  <<WrappedMetric(m.metric, m.type, SeqMin(m.timestamps), <<m.values[latest], 1>>,
                        m.s_tags, 0, t)>>

\* DatadogWrapper._percentile with percent = hundredths / 100, in exact
\* arithmetic.
percentile(data_set, hundredths) ==
    LET sorted_ds == SortedNums(data_set)
        idx == (Len(sorted_ds) - 1) * hundredths
        lower_idx == idx \div 100
        part == idx % 100
    IN  IF part = 0 THEN <<sorted_ds[lower_idx + 1], 1>>
        ELSE <<sorted_ds[lower_idx + 2] * part + sorted_ds[lower_idx + 1] * (100 - part),
               100>>

\* DatadogWrapperConfig: the default histogram_aggregates and
\* histogram_percentiles (0.95, in hundredths).
histogram_aggregates == {"max", "median", "avg", "count"}
histogram_percentiles == <<95>>

\* Metric names that contain the text "percentile".
PercentileNames == {"percentile.m"}

\* The condition of the list comprehension of _wrap_histogram:
\* "percentile" in metric_name or metric_name.split(".")[-1] in
\* cls.histogram_aggregates, for metric_name = f"{name}.{suffix}".
Generated(name, suffix) ==
    \/ name \in PercentileNames
    \/ suffix \in {"95percentile"}
    \/ suffix \in histogram_aggregates

\* DatadogWrapper._wrap_histogram.  The tags handed to WrappedMetric are
\* merged_metric.tags, the dict.
datadog_wrap_histogram(m, t) ==
    LET timestamp == SeqMin(m.timestamps)
        tags == DictKeys(m.tags)
        metrics_count == Len(m.values)
        metrics_to_generate ==
            <<<<"avg", "gauge", <<SeqSum(m.values), metrics_count>>, 0>>,
              <<"count", "rate", <<metrics_count, m.interval>>, m.interval>>,
              <<"sum", "gauge", <<SeqSum(m.values), 1>>, 0>>,
              <<"min", "gauge", <<SeqMin(m.values), 1>>, 0>>,
              <<"max", "gauge", <<SeqMax(m.values), 1>>, 0>>,
              <<"median", "gauge", percentile(m.values, 50), 0>>>>
            \o [k \in 1..Len(histogram_percentiles) |->
                   <<"95percentile", "gauge",
                     percentile(m.values, histogram_percentiles[k]), 0>>]
        chosen(g) == Generated(m.metric, g[1])
        generated == SelectSeq(metrics_to_generate, chosen)
    IN  [k \in 1..Len(generated) |->
            WrappedMetric(m.metric \o "." \o generated[k][1], generated[k][2], timestamp,
                          generated[k][3], tags, generated[k][4], t)]

\* The values of a "set" metric: a JSON list of elements, or a number in
\* the place of the list.
ListValue(elements) == <<"list", elements>>
NumberValue(n) == <<"number", n>>
IsList(v) == v[1] = "list"

\* sum(merged_metric.values, []): the elements of all the lists.
Elements(values) == UNION {Range(values[i][2]) : i \in 1..Len(values)}
RECURSIVE Total(_)
Total(values) == IF values = <<>> THEN 0 ELSE Len(values[1][2]) + Total(Tail(values))

\* A count of the elements that does not drop the repeated ones.
datadog_wrap_list(m, t) ==
    IF \E i \in 1..Len(m.values) : ~IsList(m.values[i]) THEN <<>>
    ELSE <<WrappedMetric(m.metric, "count", SeqMin(m.timestamps),
                         <<Total(m.values), 1>>, m.s_tags, m.interval, t)>>

\* DatadogWrapper._wrap_set: "[] + value" raises TypeError for a value that
\* is no list, and the method then returns [].
datadog_wrap_set(m, t) ==
    IF \E i \in 1..Len(m.values) : ~IsList(m.values[i]) THEN <<>>
    ELSE <<WrappedMetric(m.metric, "count", SeqMin(m.timestamps),
                         <<Cardinality(Elements(m.values)), 1>>, m.s_tags, m.interval, t)>>

\* DatadogWrapper._wrap_metric; metrics of other types are ignored.
datadog_wrap_metric(m, t) ==
    CASE m.type = "count" -> datadog_wrap_count(m, t)
      [] m.type = "rate" -> datadog_wrap_rate(m, t)
      [] m.type = "gauge" -> datadog_wrap_gauge(m, t)
      [] m.type = "set" -> datadog_wrap_set(m, t)
      [] m.type = "histogram" -> datadog_wrap_histogram(m, t)
      [] OTHER -> <<>>

\* MetricsWrapper.wrap_metrics of the DatadogWrapper.
RECURSIVE datadog_wrap_metrics(_, _)
datadog_wrap_metrics(merged_metrics, t) ==
    IF merged_metrics = <<>> THEN <<>>
    ELSE datadog_wrap_metric(merged_metrics[1], t)
             \o datadog_wrap_metrics(Tail(merged_metrics), t)

-----------------------------------------------------------------------------
(***************************************************************************)
(* MetricsAggregator: one tick is on_receive, a step for every request it  *)
(* makes to the storage.  Between the steps other clients of the storage   *)
(* put raw metrics into the raw queue and the clock advances.              *)
(***************************************************************************)
\* A _process_metrics that sends DeleteRecords whatever StoreRecords said.
AlwaysDelete(metrics_stored) == TRUE

\* _process_metrics: "if metrics_stored:".
ShouldDelete(metrics_stored) == metrics_stored

\* A _process_metrics that reports a group as done once it is stored.
StoredOnly(metrics_stored, cleaned_up) == metrics_stored

\* _process_metrics: "return metrics_stored and cleaned_up".
ProcessResult(metrics_stored, cleaned_up) == metrics_stored /\ cleaned_up

AggInit ==
    agg \in [pc : {"idle"}, wrapper : {"none", "simple"}, grouped : {<<>>}, keys : {<<>>},
             b_records : {<<>>}, metrics_stored : {FALSE}, result : {"none"}, ticks : {0},
             wrapped_by : {{}}, delete_failed : {FALSE}]

\* on_receive returns.
AggReturn(a, result) ==
    [a EXCEPT !.pc = "idle", !.result = IF result THEN "true" ELSE "false",
              !.grouped = <<>>, !.keys = <<>>, !.b_records = <<>>]

\* all(map(self._process_metrics, grouped_keys)): the next group is taken,
\* or True is returned when none is left.
AggNextGroup(a, grouped) ==
    IF grouped = <<>> THEN AggReturn(a, TRUE)
    ELSE [a EXCEPT !.pc = "collect_values", !.keys = grouped[1], !.grouped = Tail(grouped)]

\* on_receive: CleanupOutdatedRecords on the raw queue, its reply ignored;
\* without a wrapper the tick ends here with True.
AggCleanup(up) ==
    LET r == cleanup_outdated(zset, hash, "raw", metric_ttl, now, up)
        a == [agg EXCEPT !.ticks = @ + 1, !.result = "none", !.metrics_stored = FALSE]
    IN  /\ agg.pc = "idle"
        /\ agg.ticks < MaxTicks
        /\ zset' = r.zset /\ hash' = r.hash
        /\ last' = [Request("CleanupOutdatedRecords", "raw", up) EXCEPT
                        !.num = metric_ttl, !.ok = r.reply]
        /\ agg' = IF agg.wrapper = "none" THEN AggReturn(a, TRUE)
                  ELSE [a EXCEPT !.pc = "collect_keys"]
        /\ UNCHANGED <<nextKey, now, notAgg>>

\* on_receive: CollectKeys of the whole raw queue and group_metric_keys.
AggCollectKeys(up) ==
    LET keys == collect_keys(zset, "raw", 0, up)
    IN  /\ agg.pc = "collect_keys"
        /\ last' = [Request("CollectKeys", "raw", up) EXCEPT !.pairs = keys]
        /\ agg' = AggNextGroup(agg, group_metric_keys(keys, aggregate_interval))
        /\ UNCHANGED <<zset, hash, nextKey, now, notAgg>>

\* _process_metrics: CollectValues of the group's keys.
AggCollectValues(up) ==
    LET b_records == collect_values(hash, "raw", agg.keys, up)
    IN  /\ agg.pc = "collect_values"
        /\ last' = [Request("CollectValues", "raw", up) EXCEPT
                        !.keys = agg.keys, !.values = b_records]
        /\ agg' = [agg EXCEPT !.pc = "store", !.b_records = b_records]
        /\ UNCHANGED <<zset, hash, nextKey, now, notAgg>>

\* _process_metrics: merge, wrap, StoreRecords into the wrapped queue; when
\* no DeleteRecords is to follow the group's result is False, which ends
\* the tick.  wrapped_by remembers which tick stored the wrapped metrics of
\* which raw key.
AggStore(up) ==
    LET merged_metrics == merge_metrics(agg.b_records, aggregate_interval)
        wrapped_metrics == wrap_metrics(merged_metrics, now)
        r == store_records(zset, hash, nextKey, "wrapped", wrapped_metrics, up)
        a == [agg EXCEPT !.metrics_stored = r.reply,
                         !.wrapped_by = IF r.reply
                                        THEN @ \cup {<<k, agg.ticks>> : k \in Range(agg.keys)}
                                        ELSE @]
    IN  /\ agg.pc = "store"
        /\ zset' = r.zset /\ hash' = r.hash /\ nextKey' = r.nextKey
        /\ last' = [Request("StoreRecords", "wrapped", up) EXCEPT
                        !.records = wrapped_metrics, !.ok = r.reply]
        /\ agg' = IF ShouldDelete(r.reply) THEN [a EXCEPT !.pc = "delete"]
                  ELSE AggReturn(a, FALSE)
        /\ UNCHANGED <<now, notAgg>>

\* _process_metrics: DeleteRecords of the group's keys from the raw queue;
\* the group's result is "metrics_stored and cleaned_up".  delete_failed
\* remembers that some DeleteRecords was answered False.
AggDelete(up) ==
    LET r == delete_records(zset, hash, "raw", agg.keys, up)
        done == [agg EXCEPT !.delete_failed = @ \/ ~r.reply]
    IN  /\ agg.pc = "delete"
        /\ zset' = r.zset /\ hash' = r.hash
        /\ last' = [Request("DeleteRecords", "raw", up) EXCEPT
                        !.keys = agg.keys, !.ok = r.reply]
        /\ agg' = IF ProcessResult(agg.metrics_stored, r.reply)
                  THEN AggNextGroup(done, agg.grouped)
                  ELSE AggReturn(done, FALSE)
        /\ UNCHANGED <<nextKey, now, notAgg>>

\* A client of the agent puts a raw metric into the raw queue.
ProduceRaw(record) == StoreRecords("raw", <<record>>, TRUE)

AggNext ==
    \/ \E up \in BOOLEAN :
          \/ AggCleanup(up)
          \/ AggCollectKeys(up)
          \/ AggCollectValues(up)
          \/ AggStore(up)
          \/ AggDelete(up)
    \/ \E record \in RawRecords : ProduceRaw(record)
    \/ Tick

InitAgg == StoreInit /\ last.queue = "raw" /\ SchedInit /\ AggInit /\ snd = <<>> /\ mrg = <<>> /\ act = <<>> /\ clk = <<>> /\ eng = <<>> /\ race = <<>> /\ reg = <<>>

SpecAgg == InitAgg /\ [][AggNext]_vars

-----------------------------------------------------------------------------
(***************************************************************************)
(* Senders: MetricsSender.on_receive and, for the LogsSender,              *)
(* Sender.process_records.  One tick is a step for every request to the    *)
(* storage and one for the POST.  Between the steps other clients of the   *)
(* storage put records into the wrapped queue and the clock advances.      *)
(***************************************************************************)
LogsBulkSize == 500
GlobalTags == <<"host:pytest">>
Statuses == {"200", "202", "403", "exception"}

\* A sender that takes every reply of the endpoint for an acceptance.
AcceptAll(kind, status) == TRUE

\* _post_to_datadog: MetricsSender tests "status_code == 202", Sender tests
\* "status_code not in [200, 202]"; RequestException and IOError give False.
Accepted(kind, status) ==
    IF kind = "metrics" THEN status = "202" ELSE status \in {"200", "202"}

\* json.loads succeeds on the payload.
IsJson(b) == b[1] = "json"

\* MetricsSender.add_global_tags and collect_metrics: the payloads that are
\* JSON, with the global tags added; the others are dropped.
collect_metrics(b_metrics) ==
    LET parsed == SelectSeq(b_metrics, IsJson)
    IN  [i \in 1..Len(parsed) |->
            [JsonLoads(parsed[i]) EXCEPT !.tags = @ \o GlobalTags]]

\* RawMetric.__init__ at time t.
RawMetric(metric, type, value, t) ==
    [kind |-> "raw", metric |-> metric, type |-> type, value |-> value, timestamp |-> t]

\* len(zlib.compress(series.encode())): a positive size that grows with
\* the number of metrics sent.
MessageSize(metrics) == Len(metrics) + 1

\* MetricsSender._send_self_metrics at time t; size is the reply of
\* GetHashSizes, -1 when the store did not answer.
self_metrics(metrics, size, t) ==
    LET ready_to_dispatch == size - Len(metrics)
        sent == <<RawMetric("chouette.dispatched.metrics.number", "count", Len(metrics), t),
                  RawMetric("chouette.dispatched.metrics.bytes", "count",
                            MessageSize(metrics), t)>>
    IN  IF size >= 0 /\ ready_to_dispatch > 0
        THEN Append(sent, RawMetric("chouette.queued.metrics", "gauge", ready_to_dispatch, t))
        ELSE sent

\* The first components of the pairs CollectKeys returns.
FirstOf(pairs) == [i \in 1..Len(pairs) |-> pairs[i][1]]

SendInit ==
    snd \in [kind : {"metrics"}, bulk_size : 0..MaxBulk, send_self_metrics : BOOLEAN,
             pc : {"idle"}, keys : {<<>>}, metrics : {<<>>}, status : {"none"},
             result : {"none"}, ticks : {0}, seen : {EmptyQueue}, t0 : {0}]
        \cup [kind : {"logs"}, bulk_size : {LogsBulkSize}, send_self_metrics : {FALSE},
              pc : {"idle"}, keys : {<<>>}, metrics : {<<>>}, status : {"none"},
              result : {"none"}, ticks : {0}, seen : {EmptyQueue}, t0 : {0}]

\* The tick returns result ("true", "false"), or ends with an exception
\* ("raised").
SendReturn(sd, result) ==
    [sd EXCEPT !.pc = "idle", !.result = result]

\* CleanupOutdatedRecords on the wrapped queue, its reply ignored.  seen and
\* t0 remember the queue and the time the tick began with.
SendCleanup(up) ==
    LET r == cleanup_outdated(zset, hash, "wrapped", metric_ttl, now, up)
    IN  /\ snd.pc = "idle"
        /\ snd.ticks < MaxSends
        /\ zset' = r.zset /\ hash' = r.hash
        /\ last' = [Request("CleanupOutdatedRecords", "wrapped", up) EXCEPT
                        !.num = metric_ttl, !.ok = r.reply]
        /\ snd' = [snd EXCEPT !.pc = "collect_keys", !.ticks = @ + 1, !.result = "none",
                              !.keys = <<>>, !.metrics = <<>>, !.status = "none",
                              !.seen = zset["wrapped"], !.t0 = now]
        /\ UNCHANGED <<nextKey, now, notSend>>

\* collect_keys: CollectKeys with amount = bulk_size; "if not keys: return
\* True".
SendCollectKeys(up) ==
    LET pairs == collect_keys(zset, "wrapped", snd.bulk_size, up)
        keys == FirstOf(pairs)
    IN  /\ snd.pc = "collect_keys"
        /\ last' = [Request("CollectKeys", "wrapped", up) EXCEPT
                        !.num = snd.bulk_size, !.pairs = pairs]
        /\ snd' = IF keys = <<>> THEN SendReturn(snd, "true")
                  ELSE [snd EXCEPT !.pc = "collect_values", !.keys = keys]
        /\ UNCHANGED <<zset, hash, nextKey, now, notSend>>

\* collect_metrics / collect_records: CollectValues and the global tags.
\* Sender.collect_records hands the whole list to LogsSender.add_global_tags,
\* which takes one record: json.loads raises TypeError, None is returned and
\* list(None) raises TypeError out of the tick.
SendCollectValues(up) ==
    LET b_records == collect_values(hash, "wrapped", snd.keys, up)
    IN  /\ snd.pc = "collect_values"
        /\ last' = [Request("CollectValues", "wrapped", up) EXCEPT
                        !.keys = snd.keys, !.values = b_records]
        /\ snd' = IF snd.kind = "logs" THEN SendReturn(snd, "raised")
                  ELSE [snd EXCEPT !.pc = "post", !.metrics = collect_metrics(b_records)]
        /\ UNCHANGED <<zset, hash, nextKey, now, notSend>>

\* dispatch_to_datadog: the POST and its reply; a refusal ends the tick with
\* False.  After an acceptance _send_self_metrics asks GetHashSizes (up1)
\* and tells StoreRecords of the self metrics to the raw queue (up2), which
\* the storage serves before the tick's next request.
SendPost(status, up1, up2) ==
    LET dispatched == Accepted(snd.kind, status)
        size == get_queue_size(hash, "wrapped", up1)
        r == IF dispatched /\ snd.send_self_metrics
             THEN store_records(zset, hash, nextKey, "raw",
                                self_metrics(snd.metrics, size, now), up2)
             ELSE [zset |-> zset, hash |-> hash, nextKey |-> nextKey, reply |-> TRUE]
    IN  /\ snd.pc = "post"
        /\ zset' = r.zset /\ hash' = r.hash /\ nextKey' = r.nextKey
        /\ last' = [Request("POST", "wrapped", up1 /\ up2) EXCEPT !.ok = dispatched]
        /\ snd' = IF dispatched THEN [snd EXCEPT !.pc = "delete", !.status = status]
                  ELSE SendReturn([snd EXCEPT !.status = status], "false")
        /\ UNCHANGED <<now, notSend>>

\* DeleteRecords of the collected keys; "return dispatched and cleaned_up".
SendDelete(up) ==
    LET r == delete_records(zset, hash, "wrapped", snd.keys, up)
    IN  /\ snd.pc = "delete"
        /\ zset' = r.zset /\ hash' = r.hash
        /\ last' = [Request("DeleteRecords", "wrapped", up) EXCEPT
                        !.keys = snd.keys, !.ok = r.reply]
        /\ snd' = SendReturn(snd, IF r.reply THEN "true" ELSE "false")
        /\ UNCHANGED <<nextKey, now, notSend>>

\* The wrapped metrics the aggregator and the collector put into the queue.
WrappedRecords ==
    {WrappedMetric("m", "count", ts, <<1, 1>>, <<>>, aggregate_interval, 0) :
        ts \in Timestamps \ {0}}

ProduceWrapped(record) == StoreRecords("wrapped", <<record>>, TRUE)

\* Another client of the Redis server writes a key with the time as its
\* timestamp and a payload that is no JSON.
ForeignWrite ==
    /\ nextKey < MaxKeys
    /\ nextKey' = nextKey + 1
    /\ zset' = [zset EXCEPT !["wrapped"] = ZAdd(@, [k \in {nextKey + 1} |-> now])]
    /\ hash' = [hash EXCEPT !["wrapped"] = HSet(@, [k \in {nextKey + 1} |-> <<"bytes", "So wrong!">>])]
    /\ last' = Request("ForeignWrite", "wrapped", TRUE)
    /\ UNCHANGED <<now, notStore>>

SendNext ==
    \/ \E up \in BOOLEAN :
          \/ SendCleanup(up)
          \/ SendCollectKeys(up)
          \/ SendCollectValues(up)
          \/ SendDelete(up)
    \/ \E status \in Statuses, up1, up2 \in BOOLEAN : SendPost(status, up1, up2)
    \/ \E record \in WrappedRecords : ProduceWrapped(record)
    \/ ForeignWrite
    \/ Tick

InitSend == StoreInit /\ last.queue = "wrapped" /\ SchedInit /\ agg = <<>> /\ SendInit /\ mrg = <<>> /\ act = <<>> /\ clk = <<>> /\ eng = <<>> /\ race = <<>> /\ reg = <<>>

SpecSend == InitSend /\ [][SendNext]_vars

-----------------------------------------------------------------------------
(***************************************************************************)
(* Properties of the storage.                                              *)
(***************************************************************************)
\* The step is the storage serving a request of type op.
Served(op) == last'.op = op /\ now' = now

\* C6: in every state reached by StoreRecords, DeleteRecords and
\* CleanupOutdatedRecords requests, failed ones included, the keys of the
\* timestamp index of a queue are the keys of its payload map.
C6_IndexMatchesPayloads ==
    \A q \in Queues : DOMAIN zset[q] = DOMAIN hash[q]

\* A DeleteRecords request has just failed on a queue that holds a record
\* and has lost another one.
C6_Witness ==
    /\ last.op = "DeleteRecords" /\ ~last.up /\ last.keys # <<>> /\ ~last.ok
    /\ DOMAIN zset[last.queue] # {}
    /\ Cardinality(DOMAIN zset[last.queue]) < nextKey

\* C7: StoreRecords adds one record under a fresh key, with the record's
\* timestamp and the JSON text of its asdict(), for every record of the
\* request that has asdict(), skips the others, and returns True; with no
\* storable record it returns True whatever the state of the store; on a
\* store error it returns False and leaves the queue as it was.
C7_StoreStep ==
    Served("StoreRecords") =>
        LET q == last'.queue
            recs == last'.records
            good == {i \in 1..Len(recs) : recs[i].kind = "count"}
            added == DOMAIN zset'[q] \ DOMAIN zset[q]
        IN  /\ \A o \in Queues \ {q} : zset'[o] = zset[o] /\ hash'[o] = hash[o]
            /\ last'.ok = (good = {} \/ last'.up)
            /\ ~last'.ok => zset' = zset /\ hash' = hash
            /\ last'.ok =>
                  /\ DOMAIN zset'[q] = DOMAIN zset[q] \cup added
                  /\ DOMAIN hash'[q] = DOMAIN hash[q] \cup added
                  /\ \A k \in DOMAIN zset[q] :
                        zset'[q][k] = zset[q][k] /\ hash'[q][k] = hash[q][k]
                  /\ added \cap (1..nextKey) = {}
                  /\ Cardinality(added) = Cardinality(good)
                  /\ \E f \in [good -> added] :
                        /\ \A i, j \in good : f[i] = f[j] => i = j
                        /\ \A i \in good :
                              /\ zset'[q][f[i]] = recs[i].timestamp
                              /\ hash'[q][f[i]] =
                                    <<"json", [metric |-> "m", type |-> "count",
                                               timestamp |-> recs[i].timestamp, value |-> 1]>>

C7_StoreRecords == [][C7_StoreStep]_vars

\* A request with a record that has no asdict() and one that has it was
\* served with True, and the queue holds records.
C7_Witness ==
    /\ last.op = "StoreRecords" /\ last.ok
    /\ \E i, j \in 1..Len(last.records) : last.records[i].kind = "junk" /\ last.records[j].kind = "count"
    /\ Cardinality(DOMAIN zset[last.queue]) >= 2

\* C8: after a CleanupOutdatedRecords with ttl that returned True at time
\* now, the queue holds no record with timestamp < now - ttl and holds every
\* record it held with timestamp >= now - ttl, whatever the timestamps are;
\* it returns False only on a store error.
C8_CleanupStep ==
    Served("CleanupOutdatedRecords") =>
        LET q == last'.queue
            threshold == now - last'.num
        IN  /\ last'.ok = last'.up
            /\ last'.ok =>
                  /\ \A k \in DOMAIN zset'[q] : zset'[q][k] >= threshold
                  /\ \A k \in DOMAIN zset[q] :
                        zset[q][k] >= threshold =>
                            /\ k \in DOMAIN zset'[q] /\ zset'[q][k] = zset[q][k]
                            /\ k \in DOMAIN hash'[q] /\ hash'[q][k] = hash[q][k]

C8_Cleanup == [][C8_CleanupStep]_vars

\* C9: CollectKeys with amount n > 0 returns the (key, timestamp) pairs of
\* the n records with the smallest timestamps, all of them if the queue
\* holds fewer, in ascending order of timestamp; with amount 0 it returns
\* all the records, oldest first; on a store error it returns the empty list.
C9_CollectStep ==
    Served("CollectKeys") =>
        LET z == zset[last'.queue]
            size == Cardinality(DOMAIN z)
            n == IF last'.num = 0 THEN size ELSE Min(last'.num, size)
            r == last'.pairs
            got == {r[i][1] : i \in 1..Len(r)}
        IN  IF ~last'.up THEN r = <<>>
            ELSE /\ Len(r) = n
                 /\ Cardinality(got) = n
                 /\ \A i \in 1..Len(r) : r[i][1] \in DOMAIN z /\ r[i][2] = z[r[i][1]]
                 /\ \A i, j \in 1..Len(r) : i < j => r[i][2] <= r[j][2]
                 /\ \A k \in DOMAIN z \ got : \A i \in 1..Len(r) : r[i][2] <= z[k]

C9_CollectKeys == [][C9_CollectStep]_vars

\* CollectKeys returned fewer pairs than the queue holds, out of the order
\* of the keys.
C9_Witness ==
    /\ last.op = "CollectKeys" /\ last.up /\ last.num > 0
    /\ Len(last.pairs) = last.num
    /\ Len(last.pairs) < Cardinality(DOMAIN zset[last.queue])
    /\ \E k \in DOMAIN zset[last.queue] : k < last.pairs[1][1]

-----------------------------------------------------------------------------
(***************************************************************************)
(* Properties of the aggregator.                                           *)
(***************************************************************************)
\* C1: in an aggregator tick DeleteRecords on the raw queue is sent only
\* for the keys of a group whose StoreRecords returned True, and the raw
\* queue loses records by no other request than it and the cleanup; when
\* StoreRecords returns False the raw queue stays as it is and the tick
\* ends with False, no DeleteRecords being sent for the group.
C1_Step ==
    /\ (Served("DeleteRecords") /\ last'.queue = "raw") =>
          /\ agg.pc = "delete" /\ agg.metrics_stored
          /\ last'.keys = agg.keys
    /\ DOMAIN zset["raw"] \ DOMAIN zset'["raw"] # {} =>
          \/ Served("CleanupOutdatedRecords")
          \/ Served("DeleteRecords") /\ DOMAIN zset["raw"] \ DOMAIN zset'["raw"] \subseteq Range(agg.keys)
    /\ (Served("StoreRecords") /\ last'.queue = "wrapped" /\ ~last'.ok) =>
          /\ zset'["raw"] = zset["raw"] /\ hash'["raw"] = hash["raw"]
          /\ agg'.pc = "idle" /\ agg'.result = "false"

C1_StoreBeforeDelete == [][C1_Step]_vars

\* The StoreRecords of a group has just failed in a tick that ended with
\* False, after an earlier group was stored; the raw queue holds the
\* group's records.
C1_Witness ==
    /\ last.op = "StoreRecords" /\ last.queue = "wrapped" /\ ~last.ok
    /\ agg.result = "false" /\ agg.pc = "idle"
    /\ DOMAIN zset["raw"] # {}
    /\ DOMAIN zset["wrapped"] # {}

-----------------------------------------------------------------------------
(***************************************************************************)
(* Properties of the senders.                                              *)
(***************************************************************************)
\* C2: in a sender tick DeleteRecords on the wrapped queue is sent only
\* after the POST of the tick was answered with status 200 or 202, for the
\* keys the tick collected, and the wrapped queue loses records by no other
\* request than it and the cleanup; after any other status or an exception
\* of the request the wrapped queue stays as it is and the tick ends with
\* False.
C2_Step ==
    /\ (Served("DeleteRecords") /\ last'.queue = "wrapped") =>
          /\ snd.pc = "delete" /\ snd.status \in {"200", "202"}
          /\ last'.keys = snd.keys
    /\ DOMAIN zset["wrapped"] \ DOMAIN zset'["wrapped"] # {} =>
          Served("CleanupOutdatedRecords") \/ Served("DeleteRecords")
    /\ (Served("POST") /\ snd'.status \notin {"200", "202"}) =>
          /\ zset'["wrapped"] = zset["wrapped"] /\ hash'["wrapped"] = hash["wrapped"]
          /\ snd'.pc = "idle" /\ snd'.result = "false"

C2_PostBeforeDelete == [][C2_Step]_vars

\* A tick has deleted the records it collected after a POST answered 202.
C2_Witness ==
    /\ last.op = "DeleteRecords" /\ last.ok /\ last.keys # <<>>
    /\ snd.status = "202" /\ snd.result = "true" /\ snd.pc = "idle"
    /\ DOMAIN snd.seen \ DOMAIN zset["wrapped"] # {}

\* The step ends a tick during which no other client added a record to the
\* wrapped queue.
QuietTickEnds ==
    /\ snd.pc # "idle" /\ snd'.pc = "idle"
    /\ DOMAIN zset["wrapped"] \subseteq DOMAIN snd.seen

\* Of the records the tick began with, exactly the m oldest are gone after
\* the step and the others are in the queue as they were.
OldestDeleted(m) ==
    LET seen == snd.seen
        deleted == DOMAIN seen \ DOMAIN zset'["wrapped"]
    IN  /\ Cardinality(deleted) = m
        /\ \A d \in deleted : \A k \in DOMAIN seen \ deleted : seen[d] <= seen[k]
        /\ \A k \in DOMAIN seen \ deleted :
              /\ zset'["wrapped"][k] = seen[k]
              /\ k \in DOMAIN hash'["wrapped"] /\ hash'["wrapped"][k] = hash["wrapped"][k]

\* C10 as stated: when the wrapped queue holds n records none of which is
\* older than now - ttl and the POST of the tick is answered 200 or 202 and
\* taken by the sender for a success, exactly the min(n, bulk_size) oldest
\* records are deleted and the others stay.
C10_OriginalStep ==
    (/\ QuietTickEnds
     /\ snd.pc = "delete" /\ snd.status \in {"200", "202"}
     /\ \A k \in DOMAIN snd.seen : snd.seen[k] >= snd.t0 - metric_ttl)
        => OldestDeleted(Min(Cardinality(DOMAIN snd.seen), snd.bulk_size))

C10_Original == [][C10_OriginalStep]_vars

\* C10: when the wrapped queue holds n records none of which the cleanup of
\* the tick removes (timestamps below 0 or above now - ttl), bulk_size is
\* at least 1 and no other client adds records during the tick, then a tick
\* that ends with a DeleteRecords answered True has deleted exactly the
\* min(n, bulk_size) oldest records, unparseable ones included, and left
\* the others; a tick that ends otherwise has deleted none.
C10_AmendedStep ==
    (/\ QuietTickEnds
     /\ snd.bulk_size >= 1
     /\ \A k \in DOMAIN snd.seen : snd.seen[k] < 0 \/ snd.seen[k] > snd.t0 - metric_ttl)
        => IF Served("DeleteRecords") /\ last'.ok
           THEN OldestDeleted(Min(Cardinality(DOMAIN snd.seen), snd.bulk_size))
           ELSE OldestDeleted(0)

C10_BulkDeleted == [][C10_AmendedStep]_vars

\* A tick with bulk_size 2 that began with three records has deleted two
\* of them, one with a payload that could not be parsed, and one is left.
C10_Witness ==
    /\ last.op = "DeleteRecords" /\ last.ok /\ snd.pc = "idle" /\ snd.result = "true"
    /\ snd.bulk_size = 2 /\ Len(last.keys) = 2 /\ Len(snd.metrics) = 1
    /\ Cardinality(DOMAIN snd.seen) = 3
    /\ Cardinality(DOMAIN zset["wrapped"]) = 1
    /\ DOMAIN zset["wrapped"] \subseteq DOMAIN snd.seen

\* C11: for the metrics sender and for the logs sender a POST answered with
\* status 200 or 202 counts as dispatched (DeleteRecords of the batch
\* follows), every other status and every exception of the request counts
\* as not dispatched (the tick ends with False).
C11_Step ==
    Served("POST") =>
        IF snd'.status \in {"200", "202"}
        THEN snd'.pc = "delete"
        ELSE snd'.pc = "idle" /\ snd'.result = "false"

C11_StatusDispatched == [][C11_Step]_vars

\* The step ends a tick of an aggregator that has a wrapper.
AggTickEnds == agg.wrapper = "simple" /\ agg.pc # "idle" /\ agg'.pc = "idle"

\* C12: a tick of an aggregator with a wrapper returns True exactly when
\* StoreRecords and DeleteRecords returned True for every group of the
\* tick: it returns True only when no group is left, a further group is
\* begun only after both requests of the group before returned True, and
\* it returns False only after a StoreRecords or a DeleteRecords that
\* returned False; in particular after a failed DeleteRecords that
\* followed a successful StoreRecords.
C12_Step ==
    /\ (Served("StoreRecords") /\ last'.queue = "wrapped") => agg'.metrics_stored = last'.ok
    /\ (AggTickEnds /\ agg'.result = "true") =>
          \/ Served("CollectKeys") /\ group_metric_keys(last'.pairs, aggregate_interval) = <<>>
          \/ Served("DeleteRecords") /\ agg.metrics_stored /\ last'.ok /\ agg.grouped = <<>>
    /\ (AggTickEnds /\ agg'.result = "false") =>
          \/ Served("StoreRecords") /\ ~last'.ok
          \/ Served("DeleteRecords") /\ ~last'.ok
    /\ (agg.pc # "collect_values" /\ agg'.pc = "collect_values") =>
          \/ Served("CollectKeys")
          \/ Served("DeleteRecords") /\ agg.metrics_stored /\ last'.ok
    /\ (Served("DeleteRecords") /\ last'.queue = "raw" /\ ~(agg.metrics_stored /\ last'.ok)) =>
          agg'.pc = "idle" /\ agg'.result = "false"
    /\ AggTickEnds => agg'.result \in {"true", "false"}

C12_TickResult == [][C12_Step]_vars

\* A tick has ended with False after the DeleteRecords of a group failed
\* whose wrapped metrics were stored.
C12_Witness ==
    /\ agg.wrapper = "simple" /\ agg.pc = "idle" /\ agg.result = "false"
    /\ last.op = "DeleteRecords" /\ last.queue = "raw" /\ ~last.ok
    /\ agg.metrics_stored
    /\ DOMAIN zset["wrapped"] # {} /\ DOMAIN zset["raw"] # {}

\* C13: in an aggregator tick, when CollectValues of a group failed with a
\* store error and returned the empty list, the keys of the group are not
\* deleted from the raw queue and the tick returns False.
C13_Step ==
    (/\ agg.pc \in {"store", "delete"}
     /\ agg.keys # <<>> /\ agg.b_records = <<>>)
        => /\ \A k \in Range(agg.keys) : k \in DOMAIN zset["raw"] => k \in DOMAIN zset'["raw"]
           /\ agg'.pc \in {"store", "delete"} \/ (agg'.pc = "idle" /\ agg'.result = "false")

C13_FailedReadKeepsKeys == [][C13_Step]_vars

-----------------------------------------------------------------------------
(***************************************************************************)
(* MetricsMerger, MergedMetric.__add__ and the wrapping of a group applied *)
(* to given inputs: lists of keys with timestamps, pairs of MergedMetrics  *)
(* and lists of payloads read from the raw queue.                          *)
(***************************************************************************)
MaxGroupKeys == 3   \* keys in a list given to group_metric_keys
MaxInterval == 2    \* flush intervals range over 0..MaxInterval
MaxPayloads == 3    \* payloads in a group

\* A JSON string in the place of a number.  Every value of the model is an
\* integer; this one stands for a value that sum() cannot add to a number.
StrValue == -1

\* Dicts of tags, as lists of items in the order of insertion.
TagMaps ==
    {<<>>, <<<<"a", "1">>>>, <<<<"a", "1">>, <<"b", "2">>>>,
     <<<<"b", "2">>, <<"a", "1">>>>, <<<<"a", "1_b:2">>>>}
MetricNames == {"m", "n"}
MetricTypes == {"count", "gauge"}

\* MergedMetrics of one or two values.
MergedMetrics ==
    {MergedMetric(n, ty, vs, vs, tags, aggregate_interval) :
        n \in MetricNames, ty \in MetricTypes, tags \in TagMaps, vs \in {<<1>>, <<1, 2>>}}

\* Lists of (key, timestamp) pairs of distinct keys.
KeyStampLists ==
    UNION {{ks \in [1..n -> (1..MaxGroupKeys) \X Timestamps] :
               \A i, j \in 1..n : i # j => ks[i][1] # ks[j][1]} : n \in 0..MaxGroupKeys}

\* Payloads of a raw queue: raw metrics as RawMetric.asdict and json.dumps
\* write them, a text that is no JSON, a JSON number, an object without
\* "value" and an object whose value is a string.
Payloads ==
    {JsonDumps([metric |-> "m", tags |-> tags, timestamp |-> 1, value |-> 1,
                type |-> "count"]) : tags \in TagMaps}
    \cup {JsonDumps([metric |-> "m", tags |-> <<>>, timestamp |-> 2, value |-> 2,
                     type |-> "gauge"]),
          JsonDumps([metric |-> "m", tags |-> <<<<"b", "2">>, <<"a", "1">>>>,
                     timestamp |-> 2, value |-> 2, type |-> "histogram"]),
          JsonDumps([metric |-> "m", tags |-> <<>>, timestamp |-> 1, type |-> "count"]),
          JsonDumps([metric |-> "m", tags |-> <<>>, timestamp |-> 1, value |-> StrValue,
                     type |-> "count"]),
          <<"bytes", "So wrong!">>, <<"scalar", 5>>}
PayloadLists == UNION {[1..n -> Payloads] : n \in 0..MaxPayloads}

\* What Python calls a number among the values.
IsNumber(v) == v # StrValue

\* sum(merged_metric.values) raises TypeError on a value that is no number.
SumRaises(m) == \E i \in 1..Len(m.values) : ~IsNumber(m.values[i])

\* The wrappers of WrappersFactory.wrapper_classes.
Wrappers == {"simple", "datadog"}

\* The wrapping of a metric calls sum(): every method of the SimpleWrapper
\* and the count, rate and histogram methods of the DatadogWrapper.
WrapRaises(wrapper, m) ==
    /\ wrapper = "datadog" => m.type \in {"count", "rate", "histogram"}
    /\ SumRaises(m)

\* self.metrics_wrapper.wrap_metrics(merged_metrics) at time t.
WrapWith(wrapper, merged_metrics, t) ==
    IF wrapper = "datadog" THEN datadog_wrap_metrics(merged_metrics, t)
    ELSE wrap_metrics(merged_metrics, t)

MergeIdle ==
    [op |-> "none", keys |-> <<>>, interval |-> 0, buckets |-> <<>>, raised |-> "",
     a |-> NoMetric, b |-> NoMetric, sum |-> NoMetric,
     wrapper |-> "none", records |-> <<>>, merged |-> <<>>, wrapped |-> <<>>]

MergeInit == mrg = MergeIdle

\* MetricsMerger.group_metric_keys(keys, interval); "// 0" raises
\* ZeroDivisionError for the first key.
GroupKeys(keys, interval) ==
    /\ mrg.op = "none"
    /\ mrg' = IF interval = 0 /\ keys # <<>>
              THEN [MergeIdle EXCEPT !.op = "group", !.keys = keys, !.interval = interval,
                                     !.raised = "ZeroDivisionError"]
              ELSE [MergeIdle EXCEPT !.op = "group", !.keys = keys, !.interval = interval,
                                     !.buckets = IF keys = <<>> THEN <<>>
                                                 ELSE group_metric_keys(keys, interval)]
    /\ UNCHANGED <<schedVars, storeVars, agg, snd, act, clk, eng, race, reg>>

\* a + b: "if self.id != other.id: raise ValueError".
AddMetrics(a, b) ==
    /\ mrg.op = "none"
    /\ mrg' = IF a.id # b.id
              THEN [MergeIdle EXCEPT !.op = "add", !.a = a, !.b = b, !.raised = "ValueError"]
              ELSE [MergeIdle EXCEPT !.op = "add", !.a = a, !.b = b, !.sum = MergedAdd(a, b)]
    /\ UNCHANGED <<schedVars, storeVars, agg, snd, act, clk, eng, race, reg>>

\* _process_metrics on the payloads of a group: merge_metrics, then
\* wrap_metrics of the configured wrapper, out of which a TypeError of
\* sum() goes up through _process_metrics and on_receive.
ProcessGroup(b_records, wrapper) ==
    LET merged_metrics == merge_metrics(b_records, aggregate_interval)
        done == [MergeIdle EXCEPT !.op = "process", !.wrapper = wrapper,
                                  !.records = b_records, !.merged = merged_metrics]
    IN  /\ mrg.op = "none"
        /\ mrg' = IF \E i \in 1..Len(merged_metrics) : WrapRaises(wrapper, merged_metrics[i])
                  THEN [done EXCEPT !.raised = "TypeError"]
                  ELSE [done EXCEPT !.wrapped = WrapWith(wrapper, merged_metrics, now)]
        /\ UNCHANGED <<schedVars, storeVars, agg, snd, act, clk, eng, race, reg>>

\* MergedMetrics given to a wrapper.  Timestamps are readings of the clock,
\* positive; values are numbers, and for the type "set" lists of elements
\* or numbers in the place of the lists.
Samples ==
    {<<<<3>>, <<1>>>>, <<<<1, 2>>, <<2, 1>>>>, <<<<2, 1>>, <<1, 2>>>>,
     <<<<1, 2, 4>>, <<2, 1, 2>>>>}
WrappedTypes == {"count", "rate", "gauge", "histogram", "distribution"}
NumberMetrics ==
    {MergedMetric(n, ty, s[1], s[2], tags, interval) :
        n \in {"m", "percentile.m"}, ty \in WrappedTypes, s \in Samples,
        tags \in {<<>>, <<<<"b", "2">>, <<"a", "1">>>>},
        interval \in {aggregate_interval, DefaultInterval}}
SetSamples ==
    {<<<<ListValue(<<1, 2>>)>>, <<1>>>>,
     <<<<ListValue(<<1, 2>>), ListValue(<<2, 3>>)>>, <<2, 1>>>>,
     <<<<ListValue(<<>>), ListValue(<<1, 1>>)>>, <<1, 2>>>>,
     <<<<NumberValue(1), NumberValue(2)>>, <<2, 1>>>>,
     <<<<ListValue(<<1>>), NumberValue(2)>>, <<1, 2>>>>}
SetMetrics ==
    {MergedMetric("m", "set", s[1], s[2], tags, aggregate_interval) :
        s \in SetSamples, tags \in {<<>>, <<<<"b", "2">>, <<"a", "1">>>>}}

\* The numbers of a metric whose values are all numbers.
Numbers(m) == [m EXCEPT !.values = [i \in 1..Len(m.values) |-> m.values[i][2]]]

\* Wrapper._wrap_metric(merged_metric) for a metric of numbers.
WrapMetric(wrapper, m) ==
    /\ mrg.op = "none"
    /\ mrg' = [MergeIdle EXCEPT !.op = "wrap", !.wrapper = wrapper, !.a = m,
                                !.wrapped = WrapWith(wrapper, <<m>>, now)]
    /\ UNCHANGED <<schedVars, storeVars, agg, snd, act, clk, eng, race, reg>>

\* Wrapper._wrap_metric(merged_metric) for a metric of type "set".  In the
\* SimpleWrapper sum(values) begins with 0 and raises TypeError on a list.
WrapSet(wrapper, m) ==
    LET done == [MergeIdle EXCEPT !.op = "wrap", !.wrapper = wrapper, !.a = m]
    IN  /\ mrg.op = "none"
        /\ mrg' = IF wrapper = "datadog"
                  THEN [done EXCEPT !.wrapped = datadog_wrap_metric(m, now)]
                  ELSE IF \E i \in 1..Len(m.values) : IsList(m.values[i])
                  THEN [done EXCEPT !.raised = "TypeError"]
                  ELSE [done EXCEPT !.wrapped = wrap_metric(Numbers(m), now)]
        /\ UNCHANGED <<schedVars, storeVars, agg, snd, act, clk, eng, race, reg>>

\* The next call begins.
MergeReset ==
    /\ mrg.op # "none"
    /\ mrg' = MergeIdle
    /\ UNCHANGED <<schedVars, storeVars, agg, snd, act, clk, eng, race, reg>>

MergeNext ==
    \/ \E keys \in KeyStampLists, interval \in 0..MaxInterval : GroupKeys(keys, interval)
    \/ \E a, b \in MergedMetrics : AddMetrics(a, b)
    \/ \E b_records \in PayloadLists, wrapper \in Wrappers : ProcessGroup(b_records, wrapper)
    \/ \E wrapper \in Wrappers, m \in NumberMetrics : WrapMetric(wrapper, m)
    \/ \E wrapper \in Wrappers, m \in SetMetrics : WrapSet(wrapper, m)
    \/ MergeReset

InitMerge ==
    SchedInit /\ StoreIdle /\ agg = <<>> /\ snd = <<>> /\ MergeInit /\ act = <<>> /\ clk = <<>> /\ eng = <<>> /\ race = <<>> /\ reg = <<>>

SpecMerge == InitMerge /\ [][MergeNext]_vars

\* A payload the aggregator can use: a JSON object with metric, type,
\* timestamp and value, the value a number.
WellFormed(b_record) ==
    /\ b_record[1] = "json"
    /\ {"metric", "type", "timestamp", "value"} \subseteq DOMAIN JsonLoads(b_record)
    /\ IsNumber(JsonLoads(b_record).value)

\* C14: whatever payloads a group holds, the aggregator drops every one
\* that is no JSON, no JSON object, lacks metric, type, timestamp or value,
\* or has a value that is no number, and merges and wraps the others; no
\* payload makes the processing of the group end with an exception.
C14_DropsBadRecords ==
    mrg.op = "process" =>
        /\ mrg.raised = ""
        /\ mrg.wrapped = WrapWith(mrg.wrapper,
                                  merge_metrics(SelectSeq(mrg.records, WellFormed),
                                                aggregate_interval), now)

\* C15: for MergedMetrics a and b with a.id = b.id, a + b has the name, the
\* type and the tags that a and b have, the values of a followed by those
\* of b and the timestamps of a followed by those of b; when the ids
\* differ, a + b raises ValueError and gives no metric.
C15_Add ==
    mrg.op = "add" =>
        IF mrg.a.id = mrg.b.id
        THEN /\ mrg.raised = ""
             /\ mrg.sum.metric = mrg.a.metric /\ mrg.sum.metric = mrg.b.metric
             /\ mrg.sum.type = mrg.a.type /\ mrg.sum.type = mrg.b.type
             /\ mrg.sum.s_tags = mrg.a.s_tags /\ mrg.sum.s_tags = mrg.b.s_tags
             /\ mrg.sum.values = mrg.a.values \o mrg.b.values
             /\ mrg.sum.timestamps = mrg.a.timestamps \o mrg.b.timestamps
        ELSE mrg.raised = "ValueError" /\ mrg.sum = NoMetric

\* C16: the id of a MergedMetric tells the identities apart: two metrics
\* have the same id exactly when they have the same name, the same type and
\* the same sorted list of "name:value" strings, and a + b merges two
\* metrics only when they agree in the three.
C16_IdIsIdentity ==
    mrg.op = "add" =>
        LET same == /\ mrg.a.metric = mrg.b.metric
                    /\ mrg.a.type = mrg.b.type
                    /\ mrg.a.s_tags = mrg.b.s_tags
        IN  /\ mrg.a.id = mrg.b.id <=> same
            /\ mrg.raised = "" => same

\* The "name:value" strings of a dict of tags.
TagStrings(tags) == {tags[i][1] \o ":" \o tags[i][2] : i \in 1..Len(tags)}

\* strs is the list of the "name:value" strings of tags in sorted order.
Canonical(strs, tags) ==
    /\ Len(strs) = Len(tags)
    /\ Range(strs) = TagStrings(tags)
    /\ \A i, j \in 1..Len(strs) : i < j => Rank(strs[i]) <= Rank(strs[j])

\* C17: two MergedMetrics cast from payloads of the same name and type
\* whose dicts of tags hold the same items in different orders have the
\* same id, and every WrappedMetric a wrapper makes of them, alone or
\* merged, carries as tags the "name:value" strings in sorted order.
C17_TagsCanonical ==
    (mrg.op = "process" /\ mrg.raised = "") =>
        LET good == SelectSeq(mrg.records, WellFormed)
            dict(i) == JsonLoads(good[i])
            cast(i) == cast_to_metric(good[i], aggregate_interval)
            wrapped(i) == WrapWith(mrg.wrapper, <<cast(i)>>, now)
        IN  /\ \A i, j \in 1..Len(good) :
                  (/\ dict(i).metric = dict(j).metric /\ dict(i).type = dict(j).type
                   /\ Range(dict(i).tags) = Range(dict(j).tags))
                      => /\ cast(i).id = cast(j).id
                         /\ \A k \in 1..Len(wrapped(i)) :
                               /\ Canonical(wrapped(i)[k].tags, dict(i).tags)
                               /\ wrapped(i)[k].tags = wrapped(j)[k].tags
            /\ \A k \in 1..Len(mrg.wrapped) :
                  \E i \in 1..Len(good) : Canonical(mrg.wrapped[k].tags, dict(i).tags)

\* The numbers of a set in ascending order.
RECURSIVE Ascending(_)
Ascending(S) ==
    IF S = {} THEN <<>>
    ELSE LET least == CHOOSE n \in S : \A o \in S : n <= o
         IN  <<least>> \o Ascending(S \ {least})

\* groupBy(k -> floor(ts(k) / I), K): one bucket for every value of
\* floor(timestamp / I), in ascending order of the value, holding the keys
\* of that value in their order in K.
BucketsOf(K, I) ==
    LET values == Ascending({K[i][2] \div I : i \in 1..Len(K)})
        pairs(v) == SelectSeq(K, LAMBDA pair : pair[2] \div I = v)
    IN  [g \in 1..Len(values) |-> FirstOf(pairs(values[g]))]

\* C18 as stated: for every interval I and every list K of (key, timestamp)
\* pairs group_metric_keys(K, I) returns BucketsOf(K, I).
C18_Original ==
    mrg.op = "group" => (mrg.raised = "" /\ mrg.buckets = BucketsOf(mrg.keys, mrg.interval))

\* C18: for every interval I >= 1 and every list K of (key, timestamp)
\* pairs in ascending order of the timestamps, group_metric_keys(K, I)
\* returns one bucket for every value of floor(timestamp / I), in ascending
\* order of the value, each holding the keys of that value in their order
\* in K; for I = 0 and a list that is not empty it raises.
C18_Buckets ==
    mrg.op = "group" =>
        /\ (/\ mrg.interval >= 1
            /\ \A i, j \in 1..Len(mrg.keys) : i < j => mrg.keys[i][2] <= mrg.keys[j][2])
              => (mrg.raised = "" /\ mrg.buckets = BucketsOf(mrg.keys, mrg.interval))
        /\ (mrg.interval = 0 /\ mrg.keys # <<>>) => mrg.raised = "ZeroDivisionError"

\* Three keys in ascending order of their timestamps, one of them before
\* 0, were put into two buckets.
C18_Witness ==
    /\ mrg.op = "group" /\ mrg.raised = "" /\ mrg.interval > 1
    /\ Len(mrg.keys) = 3 /\ Len(mrg.buckets) = 2
    /\ mrg.keys[1][2] < 0
    /\ mrg.keys[1][2] <= mrg.keys[2][2] /\ mrg.keys[2][2] <= mrg.keys[3][2]
    /\ Len(mrg.buckets[2]) = 2

\* The task raised in the firing of timer i: the callback ended without a
\* set_timer call.
Raised(i) == pc[i] = "done" /\ retval[i] = "none"

-----------------------------------------------------------------------------
(***************************************************************************)
(* The sender ticked for ever: __main__.schedule_call makes the Scheduler  *)
(* tell "send" to the sender at every release_interval, and the actor      *)
(* handles the messages of its mailbox one after the other.                *)
(***************************************************************************)
\* The next firing of the schedule: the sender gets its next message.
SendAgain ==
    /\ snd.pc = "idle"
    /\ snd.ticks = MaxSends
    /\ snd' = [snd EXCEPT !.ticks = 0]
    /\ UNCHANGED <<storeVars, notSend>>

\* A step of the sender's tick, or the arrival of the next tick.
SenderStep ==
    \/ \E up \in BOOLEAN :
          \/ SendCleanup(up)
          \/ SendCollectKeys(up)
          \/ SendCollectValues(up)
          \/ SendDelete(up)
    \/ \E status \in Statuses, up1, up2 \in BOOLEAN : SendPost(status, up1, up2)
    \/ SendAgain

SendLiveNext ==
    \/ SendNext
    \/ SendAgain

\* send_self_metrics is off: the self metrics go to the raw queue, which the
\* sender never reads.
InitSendLive == InitSend /\ ~snd.send_self_metrics

\* The timer fires again and again and the actor serves its mailbox: a
\* sender step that stays possible is taken.
SpecSendLive == InitSendLive /\ [][SendLiveNext]_vars /\ WF_vars(SenderStep)

\* The storage answered the last request and the endpoint answered the last
\* POST of the running tick, if any, with 200 or 202.
Healthy == last.up /\ snd.status \in {"none", "200", "202"}

\* Key k is in the wrapped queue.
Queued(k) == k \in DOMAIN zset["wrapped"]

\* C20: with sender ticks weakly fair, if from some point on every storage
\* operation succeeds and every POST is answered with 200 or 202, every
\* record of the wrapped queue leaves it in the end (dispatched and deleted
\* by a tick, or outdated and cleaned up).
C20_EventuallyDeleted ==
    \A k \in Keys : (<>[]Healthy) => [](Queued(k) => <>(~Queued(k)))


-----------------------------------------------------------------------------
(***************************************************************************)
(* The actors.  Every actor is a pykka ThreadingActor with a mailbox that  *)
(* its own thread serves one message after the other; tell() on a stopped  *)
(* actor raises ActorDeadError.  An actor whose handler raises is stopped  *)
(* and its on_failure runs.  __main__.run starts the vital actors and a    *)
(* schedule for each of them; the storage and the plugins are started by   *)
(* the first get_instance() that does not find them in the registry.       *)
(* test_actor stands for any other actor that sends a StatsRequest.        *)
(***************************************************************************)
MaxInbox == 1       \* messages waiting in one mailbox
MaxPlugins == 2     \* entries of COLLECTOR_PLUGINS

\* The classes that extend VitalActor.
VitalActors == {"aggregator", "sender", "collector"}
\* Keys of PluginsFactory.plugins.
PluginRegistry == {"host", "docker"}
PluginNames == PluginRegistry \cup {"ice-cream"}
Actors == VitalActors \cup PluginRegistry \cup {"storage", "test_actor"}
NotAnActor == "not an actor"
\* The schedules of Chouette.run and the actors they tick.
Schedules == {"send", "aggregate", "collect"}
Target(s) ==
    CASE s = "send" -> "sender"
      [] s = "aggregate" -> "aggregator"
      [] OTHER -> "collector"
Configs == UNION {[1..n -> PluginNames] : n \in 0..MaxPlugins}

Message(type, sender) == [type |-> type, sender |-> sender]
Op(op, actor, to) == [op |-> op, actor |-> actor, to |-> to]

\* PluginsFactory.get_plugin: the class of the name, None for an unknown one.
get_plugin(plugin_name) ==
    IF plugin_name \in PluginRegistry THEN plugin_name ELSE "None"

\* SingletonActor.get_instance: the running instance, or a started one.
get_instance(alive, a) == alive \cup {a}

\* The handler of actor a raised: pykka stops a and calls on_failure.
\* SingletonActor.on_failure logs; VitalActor.on_failure also calls
\* ActorRegistry.stop_all() and Scheduler.stop_all().
on_failure(a, st) ==
    IF a \in VitalActors
    THEN [st EXCEPT !.alive = {}, !.timers = {}, !.inbox = [b \in Actors |-> <<>>],
                    !.i = 0, !.ref = "None"]
    ELSE [st EXCEPT !.alive = @ \ {a}, !.inbox[a] = <<>>]

ActorsInit ==
    act \in [alive : {VitalActors \cup {"test_actor"}}, timers : {Schedules},
             inbox : {[b \in Actors |-> <<>>]}, plugins : Configs,
             i : {0}, ref : {"None"}, sent : {<<>>}, started : {{}},
             last : {Op("none", "none", "none")}]

\* A Timer of schedule s fires: actor_ref.tell(message).  On a stopped actor
\* tell raises ActorDeadError, the callback logs it and arms no next Timer.
ScheduleFire(s) ==
    LET a == Target(s)
    IN  /\ s \in act.timers
        /\ IF a \in act.alive
           THEN /\ Len(act.inbox[a]) < MaxInbox
                /\ act' = [act EXCEPT !.inbox[a] = Append(@, Message("tick", "scheduler")),
                                      !.last = Op("Fire", a, a)]
           ELSE act' = [act EXCEPT !.timers = @ \ {s}, !.last = Op("FireDead", a, a)]
        /\ UNCHANGED <<schedVars, storeVars, agg, snd, mrg, clk, eng, race, reg>>

\* MetricsAggregator.on_receive and MetricsSender.on_receive: the tick gets
\* the storage by RedisStorage.get_instance() and works with it.
VitalTick(a) ==
    /\ a \in {"aggregator", "sender"} \cap act.alive
    /\ act.inbox[a] # <<>>
    /\ act' = [act EXCEPT !.inbox[a] = Tail(@),
                          !.alive = get_instance(@, "storage"),
                          !.last = Op("Tick", a, "storage")]
    /\ UNCHANGED <<schedVars, storeVars, agg, snd, mrg, clk, eng, race, reg>>

\* The storage, or the test actor, takes a message from its mailbox.
Consume(a) ==
    /\ a \in {"storage", "test_actor"} \cap act.alive
    /\ act.inbox[a] # <<>>
    /\ act' = [act EXCEPT !.inbox[a] = Tail(@), !.last = Op("Consume", a, a)]
    /\ UNCHANGED <<schedVars, storeVars, agg, snd, mrg, clk, eng, race, reg>>

\* The collector's loop goes to the next configured name, or ends.
Advance(st, op) ==
    IF st.i = Len(st.plugins)
    THEN [st EXCEPT !.i = 0, !.ref = "None", !.last = Op("CollectorDone", "collector", "none")]
    ELSE [st EXCEPT !.i = @ + 1, !.ref = "None", !.last = op]

\* MetricsCollector.on_receive takes a message.  A StatsResponse is told to
\* the storage as StoreRecords; any other message starts the loop over
\* self.plugins.
CollectorBegin ==
    LET m == Head(act.inbox["collector"])
        taken == [act EXCEPT !.inbox["collector"] = Tail(@), !.sent = <<>>, !.started = {}]
    IN  /\ "collector" \in act.alive
        /\ act.i = 0
        /\ act.inbox["collector"] # <<>>
        /\ IF m.type = "StatsResponse"
           THEN /\ Len(act.inbox["storage"]) < MaxInbox
                /\ act' = [taken EXCEPT
                              !.alive = get_instance(@, "storage"),
                              !.started = {"storage"} \ act.alive,
                              !.inbox["storage"] = Append(@, Message("StoreRecords", "collector")),
                              !.sent = <<Op("StoreRecords", "collector", "storage")>>,
                              !.last = Op("CollectorStore", "collector", "storage")]
           ELSE act' = IF act.plugins = <<>>
                       THEN Advance([taken EXCEPT !.i = 0], Op("none", "none", "none"))
                       ELSE [taken EXCEPT !.i = 1, !.last = Op("CollectorBegin", "collector", "none")]
        /\ UNCHANGED <<schedVars, storeVars, agg, snd, mrg, clk, eng, race, reg>>

\* The loop evaluates PluginsFactory.get_plugin for the next name (map and
\* filter are lazy): None is skipped, a known plugin is looked up or started.
CollectorGet ==
    LET plugin == get_plugin(act.plugins[act.i])
    IN  /\ "collector" \in act.alive
        /\ act.i > 0
        /\ act.ref = "None"
        /\ act' = IF plugin = "None"
                  THEN Advance(act, Op("CollectorSkip", "collector", "none"))
                  ELSE [act EXCEPT !.alive = get_instance(@, plugin),
                                   !.started = @ \cup ({plugin} \ act.alive),
                                   !.ref = plugin,
                                   !.last = Op("CollectorGet", "collector", plugin)]
        /\ UNCHANGED <<schedVars, storeVars, agg, snd, mrg, clk, eng, race, reg>>

\* plugin.tell(StatsRequest(self.actor_ref)); ActorDeadError is not caught
\* and ends the handler of the collector.
CollectorTell ==
    /\ "collector" \in act.alive
    /\ act.i > 0
    /\ act.ref # "None"
    /\ IF act.ref \in act.alive
       THEN /\ Len(act.inbox[act.ref]) < MaxInbox
            /\ act' = Advance([act EXCEPT
                                  !.inbox[act.ref] = Append(@, Message("StatsRequest", "collector")),
                                  !.sent = Append(@, Op("StatsRequest", "collector", act.ref))],
                              Op("CollectorTell", "collector", act.ref))
       ELSE act' = on_failure("collector",
                              [act EXCEPT !.last = Op("CollectorRaised", "collector", act.ref)])
    /\ UNCHANGED <<schedVars, storeVars, agg, snd, mrg, clk, eng, race, reg>>

\* hasattr(message.sender, "tell"): the sender is an actor reference.
HasTell(sender) == sender \in Actors

\* The answer of a plugin without the guards of the handler: a sender that
\* cannot be told ends the handler of the plugin with an exception.
tell_uncaught(p, sender, st) ==
    IF HasTell(sender) /\ sender \in st.alive
    THEN [st EXCEPT !.inbox[sender] = Append(@, Message("StatsResponse", p)),
                    !.last = Op("PluginAnswered", p, sender)]
    ELSE on_failure(p, [st EXCEPT !.last = Op("PluginDropped", p, sender)])

\* if hasattr(message.sender, "tell"): try: message.sender.tell(
\* StatsResponse(self.name, stats)) except ActorDeadError: a warning.
tell_response(p, sender, st) ==
    IF HasTell(sender) /\ sender \in st.alive
    THEN [st EXCEPT !.inbox[sender] = Append(@, Message("StatsResponse", p)),
                    !.last = Op("PluginAnswered", p, sender)]
    ELSE [st EXCEPT !.last = Op("PluginDropped", p, sender)]

\* The on_receive of a plugin: a StatsRequest is answered with a
\* StatsResponse told to its sender, dropped when the sender has no tell or
\* tell raises ActorDeadError; any other message does nothing.
PluginHandle(p) ==
    LET m == Head(act.inbox[p])
        taken == [act EXCEPT !.inbox[p] = Tail(@)]
    IN  /\ p \in PluginRegistry \cap act.alive
        /\ act.inbox[p] # <<>>
        /\ HasTell(m.sender) /\ m.sender \in act.alive =>
              Len(act.inbox[m.sender]) < MaxInbox
        /\ act' = IF m.type = "StatsRequest"
                  THEN tell_response(p, m.sender, taken)
                  ELSE [taken EXCEPT !.last = Op("PluginIgnored", p, m.sender)]
        /\ UNCHANGED <<schedVars, storeVars, agg, snd, mrg, clk, eng, race, reg>>

\* The handler of a raises an exception it does not catch.
HandlerRaises(a) ==
    /\ a \in act.alive \ {"test_actor"}
    /\ act.inbox[a] # <<>> \/ (a = "collector" /\ act.i > 0)
    /\ act' = on_failure(a, [act EXCEPT !.last = Op("Failure", a, "none")])
    /\ UNCHANGED <<schedVars, storeVars, agg, snd, mrg, clk, eng, race, reg>>

\* Another actor, or a caller that hands over something that is no actor,
\* sends a StatsRequest to the instance of plugin p.
ExternalRequest(p, sender) ==
    /\ Len(act.inbox[p]) < MaxInbox
    /\ "collector" \in act.alive
    /\ act' = [act EXCEPT !.alive = get_instance(@, p),
                          !.inbox[p] = Append(@, Message("StatsRequest", sender)),
                          !.last = Op("Request", sender, p)]
    /\ UNCHANGED <<schedVars, storeVars, agg, snd, mrg, clk, eng, race, reg>>

\* test_actor.stop()
TestActorStops ==
    /\ "test_actor" \in act.alive
    /\ act' = [act EXCEPT !.alive = @ \ {"test_actor"}, !.inbox["test_actor"] = <<>>,
                          !.last = Op("Stop", "test_actor", "none")]
    /\ UNCHANGED <<schedVars, storeVars, agg, snd, mrg, clk, eng, race, reg>>

ActorsNext ==
    \/ \E s \in Schedules : ScheduleFire(s)
    \/ \E a \in Actors :
          \/ VitalTick(a)
          \/ Consume(a)
          \/ HandlerRaises(a)
    \/ CollectorBegin
    \/ CollectorGet
    \/ CollectorTell
    \/ \E p \in PluginRegistry :
          \/ PluginHandle(p)
          \/ \E sender \in {"test_actor", NotAnActor} : ExternalRequest(p, sender)
    \/ TestActorStops

InitActors ==
    SchedInit /\ StoreIdle /\ agg = <<>> /\ snd = <<>> /\ mrg = <<>> /\ clk = <<>> /\ eng = <<>> /\ race = <<>> /\ reg = <<>> /\ ActorsInit

SpecActors == InitActors /\ [][ActorsNext]_vars


-----------------------------------------------------------------------------
(***************************************************************************)
(* Properties of the actors.                                               *)
(***************************************************************************)
\* The step is the failure of the handler of actor a.
Failed(a) == act'.last = Op("Failure", a, "none") /\ act'.last # act.last

C21_Step ==
    \A a \in Actors :
        Failed(a) =>
            /\ a \in {"aggregator", "sender", "storage"} =>
                  act'.alive = {} /\ act'.timers = {}
            /\ a \in PluginRegistry =>
                  act'.alive = act.alive \ {a} /\ act'.timers = act.timers

\* C21: an unhandled exception in the handler of the aggregator, of a sender
\* or of the storage stops every actor and cancels every schedule; one in
\* the handler of a plugin stops that plugin only.
C21_VitalFailureStopsAll == [][C21_Step]_vars


-----------------------------------------------------------------------------
(***************************************************************************)
(* One schedule of the Scheduler on the clock.  time is time.time() in     *)
(* clock units.  A threading.Timer runs its function when its interval has *)
(* passed; the first Timer of a schedule is started, and its callback      *)
(* reads the clock, up to MaxLate units after the clock was read for       *)
(* "started".  A task takes 0..MaxDur units, less than the interval for a  *)
(* schedule at fixed rate.                                                 *)
(***************************************************************************)
MaxClock == 9       \* the clock runs over 0..MaxClock
MaxDur == 2         \* longest execution of the task
MaxLate == 1        \* latest first firing after "started"
MaxPeriod == 3      \* intervals and delays range over 2..MaxPeriod
MaxInitial == 1     \* initial delays range over 0..MaxInitial

ScheduleKinds == {"once", "rate", "delay"}

\* A computation of the delay that compensates the drift in every case.
compensated_delay(precise, time_now, started, interval) ==
    interval - ((time_now - started) % interval)

\* _execute_and_update_cancellable: the delay of the next Timer.
next_delay(precise, time_now, started, interval) ==
    IF precise \/ time_now < started
    THEN interval - ((time_now - started) % interval)
    ELSE interval

\* A Timer.cancel() that does not stop the timer.
cancel_ignored(phase) == phase

\* threading.Timer.cancel() on the timer of the handle: a timer that is
\* waiting never runs its function, one that has fired is not changed.
cancel_timer(phase) == IF phase = "waiting" THEN "cancelled" ELSE phase

\* The longest execution the schedule is run with.
Longest(kind, interval) ==
    IF kind = "rate" /\ interval - 1 < MaxDur THEN interval - 1 ELSE MaxDur

\* schedule_once(delay, func) and _execute_periodically(initial_delay,
\* interval, func, precise) called at time 0: started = time.time() +
\* initial_delay and the first Timer is running.
ClockInit ==
    /\ clk \in [kind : ScheduleKinds, interval : 2..MaxPeriod, initial_delay : 0..MaxInitial,
                time : {0}, started : 0..MaxInitial, fire_at : 0..(MaxInitial + MaxLate),
                phase : {"waiting"}, delay : {0}, begun : {0}, execs : {<<>>},
                armed : {[at |-> 0, delay |-> 0, after |-> FALSE]},
                cancelled : {FALSE}, cancelled_in : {"none"}]
    /\ clk.started = clk.initial_delay
    /\ clk.fire_at \in clk.started..(clk.started + MaxLate)
    /\ clk.kind = "once" => clk.interval = 2

\* time.time() advances; a Timer whose interval has passed fires first and
\* a running task ends within its longest duration.
ClockTick ==
    /\ clk.time < MaxClock
    /\ clk.phase = "waiting" => clk.time < clk.fire_at
    /\ clk.phase = "task" => clk.time < clk.begun + Longest(clk.kind, clk.interval)
    /\ clk' = [clk EXCEPT !.time = @ + 1]
    /\ UNCHANGED <<schedVars, storeVars, agg, snd, mrg, act, eng, race, reg>>

\* The Timer of schedule_once fires: func(*args) is called.
OnceFire ==
    /\ clk.kind = "once"
    /\ clk.phase = "waiting"
    /\ clk.time = clk.fire_at
    /\ clk' = [clk EXCEPT !.phase = "task", !.begun = clk.time,
                          !.execs = Append(@, clk.time)]
    /\ UNCHANGED <<schedVars, storeVars, agg, snd, mrg, act, eng, race, reg>>

\* A Timer of a periodic schedule fires: _execute_and_update_cancellable
\* reads the clock and computes the delay; "if now > started" the task is
\* called, otherwise the next Timer is started at once.
PeriodicFire ==
    LET delay == next_delay(clk.kind = "rate", clk.time, clk.started, clk.interval)
    IN  /\ clk.kind # "once"
        /\ clk.phase = "waiting"
        /\ clk.time = clk.fire_at
        /\ clk' = IF clk.time > clk.started
                  THEN [clk EXCEPT !.phase = "task", !.begun = clk.time, !.delay = delay,
                                   !.execs = Append(@, clk.time)]
                  ELSE [clk EXCEPT !.delay = delay, !.fire_at = clk.time + delay,
                                   !.armed = [at |-> clk.time, delay |-> delay,
                                              after |-> FALSE]]
        /\ UNCHANGED <<schedVars, storeVars, agg, snd, mrg, act, eng, race, reg>>

\* func(*args) returns.  In a periodic schedule the next Timer is started
\* with the delay computed before the task; set_timer's refusal by a
\* cancelled handle does not stop that Timer.
ClockTaskEnd ==
    /\ clk.phase = "task"
    /\ clk' = IF clk.kind = "once" THEN [clk EXCEPT !.phase = "ended"]
              ELSE [clk EXCEPT !.phase = "waiting", !.fire_at = clk.time + clk.delay,
                               !.armed = [at |-> clk.time, delay |-> clk.delay,
                                          after |-> TRUE]]
    /\ UNCHANGED <<schedVars, storeVars, agg, snd, mrg, act, eng, race, reg>>

\* func(*args) raises: no next Timer.
ClockTaskRaise ==
    /\ clk.phase = "task"
    /\ clk' = [clk EXCEPT !.phase = "ended"]
    /\ UNCHANGED <<schedVars, storeVars, agg, snd, mrg, act, eng, race, reg>>

\* Cancellable.cancel(), the first call.
ClockCancel ==
    /\ ~clk.cancelled
    /\ clk.phase \in {"waiting", "task"}
    /\ clk' = [clk EXCEPT !.cancelled = TRUE, !.cancelled_in = clk.phase,
                          !.phase = cancel_timer(clk.phase)]
    /\ UNCHANGED <<schedVars, storeVars, agg, snd, mrg, act, eng, race, reg>>

ClockNext ==
    \/ ClockTick
    \/ OnceFire
    \/ PeriodicFire
    \/ ClockTaskEnd
    \/ ClockTaskRaise
    \/ ClockCancel

InitClock ==
    SchedInit /\ StoreIdle /\ agg = <<>> /\ snd = <<>> /\ mrg = <<>> /\ act = <<>> /\ eng = <<>> /\ race = <<>> /\ reg = <<>> /\ ClockInit

SpecClock == InitClock /\ [][ClockNext]_vars

\* The k-th execution of the schedule, counted from 0, began within d after
\* started + k * interval.
OnGrid(k, d) ==
    /\ 0 <= clk.execs[k + 1] - (clk.started + k * clk.interval)
    /\ clk.execs[k + 1] - (clk.started + k * clk.interval) <= d

\* C23: in a schedule at fixed rate whose executions take at most d, less
\* than the interval, the k-th execution begins between started + k *
\* interval and d later, for every k.
C23_FixedRate ==
    clk.kind = "rate" =>
        \A k \in 0..(Len(clk.execs) - 1) : OnGrid(k, Longest(clk.kind, clk.interval))

\* C24: in a schedule with fixed delay two executions in a row begin at
\* least the delay apart, and the Timer started after an execution has
\* exactly the delay as its interval and is started when the task returns.
C24_FixedDelay ==
    clk.kind = "delay" =>
        /\ \A k \in 1..(Len(clk.execs) - 1) : clk.execs[k + 1] - clk.execs[k] >= clk.interval
        /\ clk.armed.after =>
              /\ clk.armed.delay = clk.interval
              /\ clk.phase = "waiting" => clk.fire_at = clk.armed.at + clk.interval

\* Three executions of a schedule with fixed delay, one of them taking time.
C24_Witness ==
    /\ clk.kind = "delay"
    /\ Len(clk.execs) = 3
    /\ clk.execs[2] - clk.execs[1] > clk.interval

\* C25: schedule_once runs the task once, not before the delay has passed,
\* and not at all when cancel() is called while the timer is waiting.
C25_Once ==
    clk.kind = "once" =>
        /\ Len(clk.execs) <= 1
        /\ \A k \in 1..Len(clk.execs) : clk.execs[k] >= clk.initial_delay
        /\ clk.phase \in {"task", "ended"} => Len(clk.execs) = 1
        /\ clk.phase = "waiting" => clk.time <= clk.fire_at
        /\ clk.cancelled_in = "waiting" => clk.execs = <<>>

\* The task of schedule_once has run and the clock has moved on.
C25_Witness ==
    /\ clk.kind = "once"
    /\ clk.phase = "ended"
    /\ Len(clk.execs) = 1
    /\ clk.time > clk.execs[1] + 1



\* The StatsRequests of one pass over the configured names: one for every
\* entry that the registry resolves, in the order of the configuration.
Resolves(plugin_name) == get_plugin(plugin_name) # "None"
Requests(plugins) ==
    LET known == SelectSeq(plugins, Resolves)
    IN  [k \in 1..Len(known) |-> Op("StatsRequest", "collector", known[k])]

\* C26: the handler of the collector, given a message that is no
\* StatsResponse, ends having told one StatsRequest with its own reference
\* to the plugin of every configured name the registry resolves; it tells
\* nothing to and starts nothing for the other names, and it ends without
\* any plugin having answered.
C26_CollectorRequests ==
    /\ act.last.op # "CollectorRaised"
    /\ act.last.op = "CollectorDone" =>
          /\ act.sent = Requests(act.plugins)
          /\ act.started \subseteq {act.plugins[k] : k \in DOMAIN act.plugins} \cap PluginRegistry



\* The step is plugin p handling the StatsRequest at the head of its
\* mailbox.
Handles(p) ==
    /\ p \in act.alive
    /\ act.inbox[p] # <<>>
    /\ Head(act.inbox[p]).type = "StatsRequest"
    /\ act'.last.actor = p
    /\ act'.last.op \in {"PluginAnswered", "PluginDropped"}
    /\ act'.last.to = Head(act.inbox[p]).sender

Addressable(sender) == sender \in Actors /\ sender \in act.alive

C27_Step ==
    \A p \in PluginRegistry :
        Handles(p) =>
            LET sender == Head(act.inbox[p]).sender
            IN  /\ act'.alive = act.alive
                /\ act'.inbox[p] = Tail(act.inbox[p])
                /\ \A b \in Actors \ {p, sender} : act'.inbox[b] = act.inbox[b]
                /\ Addressable(sender) =>
                      act'.inbox[sender] =
                          Append(act.inbox[sender], Message("StatsResponse", p))
                /\ (~Addressable(sender) /\ sender \in Actors) =>
                      act'.inbox[sender] = act.inbox[sender]

-----------------------------------------------------------------------------
(***************************************************************************)
(* Properties of the wrappers.                                             *)
(***************************************************************************)
\* The call that ended was wrapper._wrap_metric(mrg.a).
WrappedBy(wrapper) == mrg.op = "wrap" /\ mrg.wrapper = wrapper

\* The distinct elements of the lists of a "set" metric.
Distinct(values) ==
    {values[i][2][j] : <<i, j>> \in
        {p \in (1..Len(values)) \X (1..2) : p[2] <= Len(values[p[1]][2])}}

AllNumbers(m) ==
    m.type = "set" => \A i \in 1..Len(m.values) : ~IsList(m.values[i])
NumbersOf(m) == IF m.type = "set" THEN Numbers(m).values ELSE m.values

\* C29: the SimpleWrapper gives for a count one count of value sum(values)
\* with the interval of the metric, and for a metric of any other type two
\* metrics: a gauge of the same name whose value is the mean of the values,
\* and a count named <name>.count of value len(values) with the interval of
\* the metric; all at the timestamp max(timestamps).
C29_SimpleWrap ==
    LET m == mrg.a
        w == mrg.wrapped
    IN  WrappedBy("simple") =>
            /\ mrg.raised = ""
            /\ \A k \in DOMAIN w : w[k].timestamp = SeqMax(m.timestamps)
            /\ m.type = "count" =>
                  /\ Len(w) = 1
                  /\ w[1].metric = m.metric
                  /\ w[1].type = "count"
                  /\ w[1].value = <<SeqSum(m.values), 1>>
                  /\ w[1].interval = m.interval
            /\ m.type # "count" =>
                  /\ Len(w) = 2
                  /\ w[1].metric = m.metric
                  /\ w[1].type = "gauge"
                  /\ AllNumbers(m) =>
                        w[1].value = <<SeqSum(NumbersOf(m)), Len(m.values)>>
                  /\ w[2].metric = m.metric \o ".count"
                  /\ w[2].type = "count"
                  /\ w[2].value = <<Len(m.values), 1>>
                  /\ w[2].interval = m.interval



\* The names of the metrics of a histogram named name under the default
\* configuration.
HistogramNames(name) ==
    {name \o "." \o suffix : suffix \in histogram_aggregates \cup {"95percentile"}}

\* C30: for a histogram the DatadogWrapper gives one metric for every
\* configured aggregate and one for every configured percentile, five under
\* the default configuration; <name>.count is a rate of value len(values) /
\* interval with the interval, the others are gauges; every one has the
\* timestamp min(timestamps) and the sorted "k:v" tags of the metric.
C30_Histogram ==
    LET m == mrg.a
        w == mrg.wrapped
    IN  (WrappedBy("datadog") /\ m.type = "histogram") =>
            /\ Len(w) = 5
            /\ {w[k].metric : k \in DOMAIN w} = HistogramNames(m.metric)
            /\ \A k \in DOMAIN w :
                  /\ w[k].timestamp = SeqMin(m.timestamps)
                  /\ w[k].tags = m.s_tags
                  /\ IF w[k].metric = m.metric \o ".count"
                     THEN /\ w[k].type = "rate"
                          /\ w[k].value = <<Len(m.values), m.interval>>
                          /\ w[k].interval = m.interval
                     ELSE w[k].type = "gauge"



-----------------------------------------------------------------------------
(***************************************************************************)
(* Further properties of the senders, the aggregator and the merger.       *)
(***************************************************************************)
\* C31: a sender tick sends CollectKeys after CleanupOutdatedRecords was
\* answered, and the body of its POST holds no record whose timestamp is
\* before the beginning of the tick minus the ttl, whether the cleanup
\* succeeded or failed.
C31_NoOutdatedPosted ==
    /\ snd.pc = "collect_keys" => last.op \in {"CleanupOutdatedRecords", "StoreRecords",
                                               "ForeignWrite", "Tick"}
    /\ snd.status # "none" =>
          \A i \in 1..Len(snd.metrics) :
              snd.metrics[i].points[1][1] >= snd.t0 - metric_ttl



\* C32: the sum of two MergedMetrics made with the same flush interval has
\* that interval, and every MergedMetric that merge_metrics returns for a
\* group read with the interval aggregate_interval has that interval,
\* whatever the number of records merged into it.
C32_IntervalKept ==
    /\ (mrg.op = "add" /\ mrg.raised = "" /\ mrg.a.interval = mrg.b.interval) =>
          mrg.sum.interval = mrg.a.interval
    /\ mrg.op = "process" =>
          \A i \in 1..Len(mrg.merged) : mrg.merged[i].interval = aggregate_interval



\* The identity of a MergedMetric: its name, its type and its sorted tags.
Identity(m) == <<m.metric, m.type, m.s_tags>>

\* C33: whatever the order of the payloads of a group, merge_metrics
\* returns one MergedMetric for every identity found among the payloads
\* that can be cast, no two of the same identity, each with the values and
\* timestamps of all the records of its identity.
C33_OnePerIdentity ==
    LET all == [i \in 1..Len(mrg.records) |->
                   cast_to_metric(mrg.records[i], aggregate_interval)]
        single == SelectSeq(all, IsMetric)
        Of(m) == {k \in 1..Len(single) : Identity(single[k]) = Identity(m)}
    IN  mrg.op = "process" =>
            /\ \A i, j \in 1..Len(mrg.merged) :
                  i # j => Identity(mrg.merged[i]) # Identity(mrg.merged[j])
            /\ {Identity(mrg.merged[i]) : i \in 1..Len(mrg.merged)}
                   = {Identity(single[k]) : k \in 1..Len(single)}
            /\ \A i \in 1..Len(mrg.merged) :
                  /\ Len(mrg.merged[i].values) = Cardinality(Of(mrg.merged[i]))
                  /\ Len(mrg.merged[i].timestamps) = Cardinality(Of(mrg.merged[i]))



\* The step ends the work on a bucket with a StoreRecords or a DeleteRecords
\* that failed.
BucketFails ==
    \/ agg.pc = "store" /\ agg' # agg /\ ~last'.ok
    \/ agg.pc = "delete" /\ agg' # agg /\ ~last'.ok

C34_Step ==
    /\ (agg.pc = "delete" /\ agg'.pc = "collect_values") => agg'.keys = agg.grouped[1]
    /\ (BucketFails /\ agg.grouped # <<>>) =>
          /\ agg'.pc = "collect_values"
          /\ agg'.keys = agg.grouped[1]

\* C34: the tick of the aggregator takes the buckets in their order, and a
\* StoreRecords or DeleteRecords that fails ends the work on its bucket
\* only: the tick goes on with the next bucket.
C34_LaterBuckets == [][C34_Step]_vars



\* The step is the firing of a Timer of a periodic schedule.
Fires ==
    /\ clk.kind # "once"
    /\ clk.phase = "waiting"
    /\ clk.time = clk.fire_at
    /\ clk' # clk
    /\ clk'.time = clk.time
    /\ clk'.cancelled = clk.cancelled

C35_Step ==
    Fires =>
        LET drift == (clk.time - clk.started) % clk.interval
        IN  /\ clk.time < clk.started =>
                  /\ clk'.execs = clk.execs
                  /\ clk'.fire_at = clk.time + (clk.interval - drift)
            /\ clk.time >= clk.started => clk'.execs = Append(clk.execs, clk.time)

\* C35: a firing of a periodic schedule that reads a time before started
\* does not call the task and starts the next Timer with interval -
\* ((now - started) mod interval); every firing that reads a time at or
\* after started, the first firing at started itself included, calls the
\* task once.
C35_FiringAtStart == [][C35_Step]_vars


\* ---------------------------------------------------------------------------
\* The SQLite engine (storage/engines/_sqlite_engine.py) next to the Redis
\* engine.  A table is a function from the row's number to the row
\* (key TEXT, timestamp REAL, content TEXT); the connection's text_factory is
\* bytes, so a key read back is a bytes object.
\* ---------------------------------------------------------------------------
Text(k) == <<"str", k>>
Blob(k) == <<"bytes", k>>

\* The rows of a table in the order of "ORDER BY timestamp" (rows of one
\* timestamp in the order of insertion).
RECURSIVE OrderByTimestamp(_, _)
OrderByTimestamp(t, S) ==
    IF S = {} THEN <<>>
    ELSE LET m == CHOOSE k \in S : \A j \in S :
                      t[k].timestamp < t[j].timestamp
                      \/ (t[k].timestamp = t[j].timestamp /\ k <= j)
         IN  <<m>> \o OrderByTimestamp(t, S \ {m})

\* cursor.execute(query, parameters) with a str or a list as parameters binds
\* one value per character or element; the statements have one "?".
Bindings(parameters) == Len(parameters)
Digits(n) == IF n < 10 THEN 1 ELSE 2

\* The replies of both engines in one form: the Python type and the value.
ReplyBool(b) == <<"bool", b>>
ReplyList(s) == <<"list", s>>
ReplyInt(n) == <<"int", n>>
ReplyTuple(n) == <<"tuple", n>>
ReplyRaised(e) == <<"raised", e>>

\* SQLiteEngine.cleanup_outdated: "DELETE * FROM ..." is no SQL statement,
\* execute() raises outside the try block.
sqlite_cleanup_outdated(tb, q, ttl, t) ==
    [table |-> tb, reply |-> ReplyRaised("OperationalError")]

\* SQLiteEngine.collect_keys: "LIMIT ?" bound to str(amount).
sqlite_collect_keys(tb, q, amount) ==
    LET rows == OrderByTimestamp(tb[q], DOMAIN tb[q])
    IN  IF Digits(amount) # 1 THEN <<>>
        ELSE [i \in 1..Min(amount, Len(rows)) |-> <<rows[i], tb[q][rows[i]].timestamp>>]

\* SQLiteEngine.collect_values: "WHERE key IN (?)" bound to the list of keys,
\* which are the bytes objects collect_keys returned.
sqlite_collect_values(tb, q, keys) ==
    LET rows == OrderByTimestamp(tb[q], DOMAIN tb[q])
        found == SelectSeq(rows, LAMBDA k : tb[q][k].key = Blob(keys[1]))
    IN  IF keys = <<>> THEN <<>>
        ELSE IF Bindings(keys) # 1 THEN <<>>
        ELSE [i \in 1..Len(found) |-> <<"row", tb[q][found[i]].content>>]

\* SQLiteEngine.delete_records: the statement is no SQL either, here the
\* error is caught.
sqlite_delete_records(tb, q, keys) ==
    IF keys = <<>> THEN [table |-> tb, reply |-> TRUE]
    ELSE [table |-> tb, reply |-> FALSE]

\* SQLiteEngine.get_queue_size: fetchall().pop() is the row (count,).
sqlite_get_queue_size(tb, q) == ReplyTuple(Cardinality(DOMAIN tb[q]))

\* SQLiteEngine.store_records.
sqlite_store_records(tb, nk, q, records) ==
    LET st == Storable(records)
        new == (nk + 1)..(nk + Len(st))
        values == [k \in new |-> [key |-> Text(k), timestamp |-> st[k - nk].timestamp,
                                  content |-> JsonDumps(AsDict(st[k - nk]))]]
    IN  IF new = {} THEN [table |-> tb, nextKey |-> nk, reply |-> TRUE]
        ELSE [table |-> [tb EXCEPT ![q] = [k \in DOMAIN @ \cup new |->
                                             IF k \in new THEN values[k] ELSE @[k]]],
              nextKey |-> nk + Len(st), reply |-> TRUE]

\* Both engines receive the same requests of one queue, both stores answer
\* and uuid4() returns the same keys to both.
EnginesInit ==
    \E q \in Queues :
        eng = [queue |-> q, now |-> 0, nextKey |-> 0, op |-> "none",
               zset |-> [p \in Queues |-> EmptyQueue],
               hash |-> [p \in Queues |-> EmptyQueue],
               table |-> [p \in Queues |-> EmptyQueue],
               redis |-> ReplyBool(TRUE), sqlite |-> ReplyBool(TRUE)]

notEngines == <<schedVars, storeVars, agg, snd, mrg, act, clk, race, reg>>

EnginesStore(records) ==
    LET r == store_records(eng.zset, eng.hash, eng.nextKey, eng.queue, records, TRUE)
        s == sqlite_store_records(eng.table, eng.nextKey, eng.queue, records)
    IN  /\ r.nextKey <= MaxKeys
        /\ eng' = [eng EXCEPT !.op = "StoreRecords", !.zset = r.zset, !.hash = r.hash,
                              !.table = s.table, !.nextKey = r.nextKey,
                              !.redis = ReplyBool(r.reply), !.sqlite = ReplyBool(s.reply)]
        /\ UNCHANGED notEngines

EnginesCollectKeys(amount) ==
    /\ eng' = [eng EXCEPT !.op = "CollectKeys",
                          !.redis = ReplyList(collect_keys(eng.zset, eng.queue, amount, TRUE)),
                          !.sqlite = ReplyList(sqlite_collect_keys(eng.table, eng.queue, amount))]
    /\ UNCHANGED notEngines

EnginesCollectValues(keys) ==
    LET values == collect_values(eng.hash, eng.queue, keys, TRUE)
    IN  /\ eng' = [eng EXCEPT !.op = "CollectValues",
                       !.redis = ReplyList([i \in 1..Len(values) |-> <<"bytes", values[i]>>]),
                       !.sqlite = ReplyList(sqlite_collect_values(eng.table, eng.queue, keys))]
        /\ UNCHANGED notEngines

EnginesDelete(keys) ==
    LET r == delete_records(eng.zset, eng.hash, eng.queue, keys, TRUE)
        s == sqlite_delete_records(eng.table, eng.queue, keys)
    IN  /\ eng' = [eng EXCEPT !.op = "DeleteRecords", !.zset = r.zset, !.hash = r.hash,
                              !.table = s.table,
                              !.redis = ReplyBool(r.reply), !.sqlite = ReplyBool(s.reply)]
        /\ UNCHANGED notEngines

EnginesCleanup(ttl) ==
    LET r == cleanup_outdated(eng.zset, eng.hash, eng.queue, ttl, eng.now, TRUE)
        s == sqlite_cleanup_outdated(eng.table, eng.queue, ttl, eng.now)
    IN  /\ eng' = [eng EXCEPT !.op = "CleanupOutdatedRecords",
                              !.zset = r.zset, !.hash = r.hash, !.table = s.table,
                              !.redis = ReplyBool(r.reply), !.sqlite = s.reply]
        /\ UNCHANGED notEngines

EnginesSize ==
    /\ eng' = [eng EXCEPT !.op = "GetQueueSize",
                          !.redis = ReplyInt(get_queue_size(eng.hash, eng.queue, TRUE)),
                          !.sqlite = sqlite_get_queue_size(eng.table, eng.queue)]
    /\ UNCHANGED notEngines

EnginesTick ==
    /\ eng.now < MaxTime
    /\ eng' = [eng EXCEPT !.now = @ + 1, !.op = "Tick"]
    /\ UNCHANGED notEngines

EnginesNext ==
    \/ \E records \in Batches : EnginesStore(records)
    \/ \E amount \in Amounts : EnginesCollectKeys(amount)
    \/ \E keys \in KeyLists : EnginesCollectValues(keys)
    \/ \E keys \in KeyLists : EnginesDelete(keys)
    \/ \E ttl \in Ttls : EnginesCleanup(ttl)
    \/ EnginesSize
    \/ EnginesTick

InitEngines ==
    SchedInit /\ StoreIdle /\ agg = <<>> /\ snd = <<>> /\ mrg = <<>> /\ act = <<>> /\ clk = <<>> /\ race = <<>> /\ reg = <<>> /\ EnginesInit

SpecEngines == InitEngines /\ [][EnginesNext]_vars

\* The records a queue holds: (key, timestamp, payload).
RedisContents ==
    {<<k, eng.zset[eng.queue][k], eng.hash[eng.queue][k]>> :
        k \in DOMAIN eng.zset[eng.queue] \cap DOMAIN eng.hash[eng.queue]}
SQLiteContents ==
    {<<k, eng.table[eng.queue][k].timestamp, eng.table[eng.queue][k].content>> :
        k \in DOMAIN eng.table[eng.queue]}

\* C36: whatever requests were served, the SQLite engine has returned the
\* same result to the last one as the Redis engine and holds the same
\* records.
C36_EnginesAgree ==
    /\ eng.sqlite = eng.redis
    /\ SQLiteContents = RedisContents


\* ---------------------------------------------------------------------------
\* RedisEngine.cleanup_outdated command by command.  The Redis server serves
\* other connections between ZRANGEBYSCORE and the pipeline's EXEC: the
\* producers of the host write their records to the queue themselves.
\* ---------------------------------------------------------------------------
RaceInit ==
    race = [zset |-> EmptyQueue, hash |-> EmptyQueue, nextKey |-> 0, now |-> 0,
            pc |-> "idle", threshold |-> 0, outdated_keys |-> <<>>,
            op |-> "none", reply |-> TRUE]

notRace == <<schedVars, storeVars, agg, snd, mrg, act, clk, eng, reg>>

\* threshold = time.time() - request.ttl; outdated_keys = zrangebyscore(...);
\* "if not outdated_keys: return True".
RaceRead(ttl) ==
    LET threshold == race.now - ttl
        outdated_keys == ZRangeByScore(race.zset, 0, threshold)
    IN  /\ race.pc = "idle"
        /\ race' = [race EXCEPT !.threshold = threshold, !.outdated_keys = outdated_keys,
                                !.pc = IF outdated_keys = <<>> THEN "idle" ELSE "pipeline",
                                !.op = "zrangebyscore", !.reply = TRUE]
        /\ UNCHANGED notRace

\* pipeline.zremrangebyscore(set_name, 0, threshold);
\* pipeline.hdel(hash_name, *outdated_keys); pipeline.execute().
RaceExecute(up) ==
    /\ race.pc = "pipeline"
    /\ race' = [race EXCEPT
                    !.zset = IF up THEN ZRemRangeByScore(@, 0, race.threshold) ELSE @,
                    !.hash = IF up THEN HDel(@, Range(race.outdated_keys)) ELSE @,
                    !.pc = "idle", !.op = "execute", !.reply = up]
    /\ UNCHANGED notRace

\* A producer stores one record: ZADD and HSET of a new key in one
\* transaction.
RaceProduce(record) ==
    LET key == race.nextKey + 1
    IN  /\ key <= MaxKeys
        /\ HasAsDict(record)
        /\ race' = [race EXCEPT
                        !.zset = ZAdd(@, [k \in {key} |-> record.timestamp]),
                        !.hash = HSet(@, [k \in {key} |-> JsonDumps(AsDict(record))]),
                        !.nextKey = key, !.op = "producer"]
        /\ UNCHANGED notRace

RaceTick ==
    /\ race.now < MaxTime
    /\ race' = [race EXCEPT !.now = @ + 1, !.op = "time"]
    /\ UNCHANGED notRace

RaceNext ==
    \/ \E ttl \in Ttls : RaceRead(ttl)
    \/ \E up \in BOOLEAN : RaceExecute(up)
    \/ \E record \in Records : RaceProduce(record)
    \/ RaceTick

InitRace ==
    SchedInit /\ StoreIdle /\ agg = <<>> /\ snd = <<>> /\ mrg = <<>> /\ act = <<>> /\ clk = <<>> /\ eng = <<>> /\ reg = <<>> /\ RaceInit

SpecRace == InitRace /\ [][RaceNext]_vars

\* C37: whatever a producer stores between the cleanup's reading of the
\* outdated keys and its removal, the cleanup removes the same keys from the
\* timestamp index and from the payload map: every payload's key is in the
\* index.
C37_NoOrphanPayload ==
    /\ DOMAIN race.hash \subseteq DOMAIN race.zset
    /\ DOMAIN race.zset \subseteq DOMAIN race.hash


\* The running tick has collected its keys and has not returned.
Collected == snd.pc \in {"collect_values", "post", "delete"}
\* Key k was not among the keys the running tick collected.
NotOwn(k) == k \notin Range(snd.keys)
\* The POST of a batch with key k was accepted.
Posted(k) == snd.pc = "delete" /\ k \in Range(snd.keys)
\* Every request is answered and every POST is answered with 202.
Accepting == last.up /\ snd.status \in {"none", "202"}

C38_Step ==
    Collected =>
        \A k \in DOMAIN hash["wrapped"] \cap DOMAIN zset["wrapped"] :
            NotOwn(k) =>
                /\ k \in DOMAIN hash'["wrapped"] /\ hash'["wrapped"][k] = hash["wrapped"][k]
                /\ k \in DOMAIN zset'["wrapped"] /\ zset'["wrapped"][k] = zset["wrapped"][k]

-----------------------------------------------------------------------------
(***************************************************************************)
(* The threads of the vital actors in their tick handlers: each handler    *)
(* looks the storage up with get_instance(), which reads the registry and  *)
(* starts an instance when it has found none, and sends its requests to    *)
(* the reference it got: the aggregator and the sender with ask(), which   *)
(* blocks until the reply, the collector with tell().  A handler that      *)
(* raises stops its actor, and VitalActor.on_failure stops every           *)
(* registered actor, blocking on each, and the timers.                     *)
(***************************************************************************)
MaxInstances == 6   \* storage instances started in a run
MaxAsks == 2        \* blocking requests of one tick

Callers == {"aggregator", "sender", "collector"}
Instances == 1..MaxInstances

\* The handlers that use ask(): MetricsAggregator and the senders.
Asks(c) == c \in {"aggregator", "sender"}

\* A storage that asks the sender of the message back.
AsksTheSender(m) == m.sender
\* The actor a StorageActor.on_receive sends a blocking request to while it
\* handles message m: it calls the engine and returns.
AskedByStorage(m) == "nobody"

RECURSIVE Reverse(_)
Reverse(s) == IF s = <<>> THEN <<>> ELSE Append(Reverse(Tail(s)), Head(s))

\* ActorRegistry.get_all(), reversed: the storages were started after the
\* vital actors.
RegisteredReversed(r) ==
    [i \in 1..Len(r.storages) |-> <<"storage", Reverse(r.storages)[i]>>]
    \o [i \in 1..Len(r.actors) |-> <<"actor", Reverse(r.actors)[i]>>]

Remove(s, x) == SelectSeq(s, LAMBDA y : y # x)

RegInit ==
    reg = [pc |-> [c \in Callers |-> "idle"],
           ref |-> [c \in Callers |-> 0],
           left |-> [c \in Callers |-> 0],
           actors |-> <<"aggregator", "sender", "collector">>,
           storages |-> <<>>,
           started |-> 0,
           inbox |-> [i \in Instances |-> <<>>],
           stops |-> [c \in Callers |-> {}],
           todo |-> [c \in Callers |-> <<>>],
           timers |-> TRUE]

notReg == <<schedVars, storeVars, agg, snd, mrg, act, clk, eng, race>>

\* The handlers of the set cs end with an exception.  The reference and the
\* count of requests of a handler that has ended are read no more: the next
\* handler begins with get_instance().
EndRaised(r, cs) ==
    [r EXCEPT !.pc = [c \in Callers |-> IF c \in cs THEN "on_failure" ELSE @[c]],
              !.ref = [c \in Callers |-> IF c \in cs THEN 0 ELSE @[c]],
              !.left = [c \in Callers |-> IF c \in cs THEN 0 ELSE @[c]]]

\* The timer of c's schedule tells c its message (the collector asks its
\* plugins and handles their StatsResponse) and c's thread begins the handler
\* that uses the storage.
TickBegins(c) ==
    /\ reg.timers
    /\ c \in Range(reg.actors)
    /\ reg.pc[c] = "idle" /\ reg.stops[c] = {}
    /\ reg' = [reg EXCEPT !.pc[c] = "get_by_class", !.left[c] = MaxAsks]
    /\ UNCHANGED notReg

\* instances = ActorRegistry.get_by_class(cls); "if instances: return
\* instances.pop()".
GetByClass(c) ==
    /\ reg.pc[c] = "get_by_class"
    /\ reg' = IF reg.storages # <<>>
              THEN [reg EXCEPT !.ref[c] = reg.storages[Len(reg.storages)],
                               !.pc[c] = "request"]
              ELSE [reg EXCEPT !.pc[c] = "start"]
    /\ UNCHANGED notReg

\* "return cls.start()".
Start(c) ==
    /\ reg.pc[c] = "start"
    /\ reg.started < MaxInstances
    /\ reg' = [reg EXCEPT !.started = @ + 1, !.storages = Append(@, reg.started + 1),
                          !.ref[c] = reg.started + 1, !.pc[c] = "request"]
    /\ UNCHANGED notReg

\* storage.ask(request) or storage.tell(request): ActorDeadError on a
\* stopped instance; ask() waits for the reply, tell() returns.
SendRequest(c) ==
    /\ reg.pc[c] = "request"
    /\ reg' = IF reg.ref[c] \notin Range(reg.storages)
              THEN EndRaised(reg, {c})
              ELSE IF Asks(c)
              THEN [reg EXCEPT !.inbox[reg.ref[c]] = Append(@, [type |-> "ask", sender |-> c]),
                               !.pc[c] = "wait"]
              ELSE [reg EXCEPT !.inbox[reg.ref[c]] = Append(@, [type |-> "tell", sender |-> c]),
                               !.pc[c] = "return"]
    /\ UNCHANGED notReg

\* The collector's handler returns when its tell() has returned and the
\* storage has taken the message from a mailbox of bounded length.
Return(c) ==
    /\ reg.pc[c] = "return"
    /\ \A m \in Range(reg.inbox[reg.ref[c]]) : m # [type |-> "tell", sender |-> c]
    /\ reg' = [reg EXCEPT !.pc[c] = "idle", !.ref[c] = 0, !.left[c] = 0]
    /\ UNCHANGED notReg

\* Where the handler of c goes on when a request is answered: the
\* aggregator with its next request, the sender with the POST between its
\* requests.
Answered(c, left) ==
    IF left <= 1 THEN "idle"
    ELSE IF c = "sender" THEN "post" ELSE "request"

\* The answers to the messages left in the mailbox of a stopped actor:
\* ActorDeadError for an ask, the reply of a stop for a stop.
Refused(rest) == {m.sender : m \in {x \in Range(rest) : x.type = "ask"}}
Stopped(rest) == {m.sender : m \in {x \in Range(rest) : x.type = "stop"}}

\* The thread of storage instance i handles the next message of its
\* mailbox: StorageActor.on_receive, or the stop command.
Serve(i) ==
    LET m == Head(reg.inbox[i])
        rest == Tail(reg.inbox[i])
    IN  /\ i \in Range(reg.storages)
        /\ reg.inbox[i] # <<>>
        /\ AskedByStorage(m) = "nobody"
        /\ reg' =
             CASE m.type = "ask" ->
                    [reg EXCEPT !.inbox[i] = rest,
                                !.pc[m.sender] = Answered(m.sender, reg.left[m.sender]),
                                !.left[m.sender] = @ - 1,
                                !.ref[m.sender] = IF reg.left[m.sender] <= 1 THEN 0 ELSE @]
               [] m.type = "tell" -> [reg EXCEPT !.inbox[i] = rest]
               [] OTHER ->
                    [EndRaised(reg, Refused(rest)) EXCEPT
                                !.inbox[i] = <<>>,
                                !.storages = Remove(@, i),
                                !.pc = [c \in Callers |->
                                          IF c \in Stopped(reg.inbox[i]) THEN "stop_all"
                                          ELSE @[c]]]
        /\ UNCHANGED notReg

\* The POST of the sender returns.
HttpReturns ==
    /\ reg.pc["sender"] = "post"
    /\ reg' = [reg EXCEPT !.pc["sender"] = "request"]
    /\ UNCHANGED notReg

\* The handler raises between its requests.
Raises(c) ==
    /\ reg.pc[c] \in {"request", "post"}
    /\ reg' = EndRaised(reg, {c})
    /\ UNCHANGED notReg

\* The actor of the handler that raised is taken from the registry and
\* VitalActor.on_failure calls ActorRegistry.stop_all().
OnFailure(c) ==
    LET gone == [reg EXCEPT !.actors = Remove(@, c)]
    IN  /\ reg.pc[c] = "on_failure"
        /\ reg' = [gone EXCEPT !.pc[c] = "stop_all", !.todo[c] = RegisteredReversed(gone)]
        /\ UNCHANGED notReg

\* ref.stop(block=True) of the next actor of the list: a stop command to its
\* mailbox and the wait for the reply, or ActorDeadError and False.  After
\* the last one Scheduler.stop_all(), and the stop commands of c's own
\* mailbox are answered.
StopNext(c) ==
    /\ reg.pc[c] = "stop_all"
    /\ reg' =
         IF reg.todo[c] = <<>>
         THEN [reg EXCEPT !.timers = FALSE, !.stops[c] = {},
                          !.pc = [d \in Callers |->
                                    IF d = c THEN "stopped"
                                    ELSE IF d \in reg.stops[c] THEN "stop_all" ELSE @[d]]]
         ELSE LET t == Head(reg.todo[c])
                  next == [reg EXCEPT !.todo[c] = Tail(@)]
              IN  IF t[1] = "storage"
                  THEN IF t[2] \in Range(reg.storages)
                       THEN [next EXCEPT !.inbox[t[2]] = Append(@, [type |-> "stop", sender |-> c]),
                                         !.pc[c] = "stop_wait"]
                       ELSE next
                  ELSE IF t[2] \in Range(reg.actors)
                       THEN [next EXCEPT !.stops[t[2]] = @ \cup {c}, !.pc[c] = "stop_wait"]
                       ELSE next
    /\ UNCHANGED notReg

\* Actor c takes a stop command from its mailbox between two handlers.
StopsIdle(c) ==
    /\ reg.pc[c] = "idle" /\ reg.stops[c] # {}
    /\ reg' = [reg EXCEPT !.actors = Remove(@, c), !.stops[c] = {},
                          !.pc = [d \in Callers |->
                                    IF d = c THEN "stopped"
                                    ELSE IF d \in reg.stops[c] THEN "stop_all" ELSE @[d]]]
    /\ UNCHANGED notReg

CallerStep(c) ==
    \/ GetByClass(c)
    \/ Start(c)
    \/ SendRequest(c)
    \/ Return(c)
    \/ OnFailure(c)
    \/ StopNext(c)
    \/ StopsIdle(c)

RegNext ==
    \/ \E c \in Callers :
          \/ TickBegins(c)
          \/ CallerStep(c)
          \/ Raises(c)
    \/ \E i \in Instances : Serve(i)
    \/ HttpReturns

InitReg ==
    SchedInit /\ StoreIdle /\ agg = <<>> /\ snd = <<>> /\ mrg = <<>> /\ act = <<>> /\ clk = <<>> /\ eng = <<>> /\ race = <<>> /\ RegInit

SpecRegistry == InitReg /\ [][RegNext]_vars

\* Every thread runs on, every storage instance serves its mailbox and the
\* HTTP call returns.
SpecRegistryLive ==
    /\ SpecRegistry
    /\ \A c \in Callers : WF_vars(CallerStep(c))
    /\ \A i \in Instances : WF_vars(Serve(i))
    /\ WF_vars(HttpReturns)

\* C39: at most one instance of the storage is alive at any moment, and the
\* handlers that hold a reference to a live instance hold the same one.
C39_OneInstance ==
    /\ Len(reg.storages) <= 1
    /\ \A c, d \in Callers :
          (reg.pc[c] \in {"request", "wait"} /\ reg.pc[d] \in {"request", "wait"}
           /\ reg.ref[c] \in Range(reg.storages) /\ reg.ref[d] \in Range(reg.storages))
          => reg.ref[c] = reg.ref[d]


\* The thread of actor c is in its tick handler.
Handling(c) == reg.pc[c] \in {"get_by_class", "start", "request", "wait", "post", "return"}

\* The thread of c is in a handler or in a blocking stop of on_failure.
Blocking(c) == Handling(c) \/ reg.pc[c] = "stop_wait"

\* The ask of c waits in the mailbox of the live instance c holds.
Pending(c) ==
    /\ reg.ref[c] \in Range(reg.storages)
    /\ [type |-> "ask", sender |-> c] \in Range(reg.inbox[reg.ref[c]])

\* C40: a handler waits for a reply only in the aggregator and the sender
\* and only for the storage's reply to a request that is in the mailbox of a
\* running storage instance; with every thread running on, the storage
\* serving and the POST returning, every handler that has begun ends, and
\* every blocking stop of on_failure returns.
C40_NoDeadlock ==
    /\ [](\A c \in Callers : reg.pc[c] = "wait" => Asks(c) /\ Pending(c))
    /\ \A c \in Callers : Blocking(c) ~> ~Blocking(c)

\* The aggregator and the sender both wait for the same storage instance,
\* which has also a message of the collector in its mailbox.
C40_Witness ==
    /\ reg.pc["aggregator"] = "wait" /\ reg.pc["sender"] = "wait"
    /\ reg.ref["aggregator"] = reg.ref["sender"]
    /\ Len(reg.inbox[reg.ref["sender"]]) = 3

=============================================================================
